---------------------------- MODULE Spec2Model ----------------------------
(***************************************************************************)
(* A model of larry-pdf: the pushdown PDF tokenizer (src/src/tokenizer.rs) *)
(* and the value parser / document assembler built on it                   *)
(* (src/src/reader.rs).                                                    *)
(*                                                                         *)
(* A file is a sequence of characters, each a one-character string; the    *)
(* reader's cursor is an offset 0..Len(buf), so the next byte read at      *)
(* offset o is buf[o+1].  A call that panics (an unwrap on None/Err, a     *)
(* panic!, a todo!) ends the process: the model records it in `aborted`    *)
(* and takes no further step.                                              *)
(***************************************************************************)
EXTENDS Integers, Sequences, FiniteSets, TLC

VARIABLES
    buf,            \* the bytes of the file under the cursor (never written)
    pos,            \* Tokenizer.reader's stream position
    state_stack,    \* Tokenizer.state_stack
    aborted,        \* TRUE once a call has panicked
    last,           \* the last tokenizer call made by the driver and its result
    debug_enabled,  \* whether the log crate's Debug level is enabled
    pdf,            \* Reader.pdf: the document assembled so far
    phase,          \* where Reader.read is: "parse", then "build"
    want            \* ghost: the value the generated file was written from

vars == <<buf, pos, state_stack, aborted, last, debug_enabled, pdf, phase, want>>

-----------------------------------------------------------------------------
(* Characters *)

SP == " "
LF == "\n"
CR == "\r"
HT == "\t"
BSL == "\\"
BS == "<BS>"        \* U+0008, which neither Rust nor TLA+ has an escape for
FF == "<FF>"        \* U+000C

Digits == {"0", "1", "2", "3", "4", "5", "6", "7", "8", "9"}
NonZeroDigits == Digits \ {"0"}
LowerAZ == {"a", "b", "c", "d", "e", "f", "g", "h", "i", "j", "k", "l", "m",
            "n", "o", "p", "q", "r", "s", "t", "u", "v", "w", "x", "y", "z"}
UpperAZ == {"A", "B", "C", "D", "E", "F", "G", "H", "I", "J", "K", "L", "M",
            "N", "O", "P", "Q", "R", "S", "T", "U", "V", "W", "X", "Y", "Z"}

\* The three bytes every state of `next` skips between tokens.
SkippedWs == {SP, LF, CR}

\* char::is_whitespace restricted to the characters of the model (str::trim).
TrimWs == {SP, LF, CR, HT, FF}

DigitVal(c) ==
    CASE c = "0" -> 0 [] c = "1" -> 1 [] c = "2" -> 2 [] c = "3" -> 3
      [] c = "4" -> 4 [] c = "5" -> 5 [] c = "6" -> 6 [] c = "7" -> 7
      [] c = "8" -> 8 [] c = "9" -> 9
      [] c \in {"a", "A"} -> 10 [] c \in {"b", "B"} -> 11
      [] c \in {"c", "C"} -> 12 [] c \in {"d", "D"} -> 13
      [] c \in {"e", "E"} -> 14 [] c \in {"f", "F"} -> 15

HexDigits == Digits \cup {"a", "b", "c", "d", "e", "f", "A", "B", "C", "D", "E", "F"}

\* char::from_u32 on the code points the model's files can name; any other
\* code point is a character of its own, written #<code>.
Chr(n) ==
    CASE n = 8 -> BS [] n = 9 -> HT [] n = 10 -> LF [] n = 12 -> FF
      [] n = 13 -> CR [] n = 32 -> SP [] n = 40 -> "(" [] n = 41 -> ")"
      [] n = 92 -> BSL [] n = 97 -> "a" [] n = 110 -> "n"
      [] OTHER -> "#" \o ToString(n)

-----------------------------------------------------------------------------
\* With(e, LAMBDA x : body) is `LET x == e IN body`: it names a value that is
\* used more than once.
With(e, F(_)) == F(e)

-----------------------------------------------------------------------------
(* Numbers.  An f64 that a decimal literal denotes is kept exactly, as     *)
(* n / 10^d with no trailing zero in the fraction.                         *)

RECURSIVE DigitsVal(_, _)
DigitsVal(s, radix) ==
    IF s = <<>> THEN 0
    ELSE DigitsVal(SubSeq(s, 1, Len(s) - 1), radix) * radix + DigitVal(s[Len(s)])

RECURSIVE Pow10(_)
Pow10(d) == IF d = 0 THEN 1 ELSE 10 * Pow10(d - 1)

RECURSIVE Normal(_, _)
Normal(n, d) ==
    IF d > 0 /\ n % 10 = 0 THEN Normal(n \div 10, d - 1) ELSE [n |-> n, d |-> d]

Int64(n) == [n |-> n, d |-> 0]

\* str::parse::<u64>: an optional '+' and then one or more decimal digits.
\* (Overflow of u64 needs 20 digits and is outside the files of the model.)
parse_u64(s) ==
    With(IF s # <<>> /\ s[1] = "+" THEN Tail(s) ELSE s, LAMBDA body :
    IF body # <<>> /\ \A i \in 1..Len(body) : body[i] \in Digits
    THEN [ok |-> TRUE, v |-> DigitsVal(body, 10)]
    ELSE [ok |-> FALSE, v |-> 0])

\* str::parse::<f64> on decimal literals: sign? digits* ('.' digits*)? with at
\* least one digit.  The exponent form and the spellings inf/infinity/nan,
\* which Rust also accepts, need letters next to the number and do not occur
\* in the files of the model.
parse_f64(s) ==
    With(s # <<>> /\ s[1] = "-", LAMBDA negative :
    With(IF s # <<>> /\ s[1] \in {"+", "-"} THEN Tail(s) ELSE s, LAMBDA body :
    With({i \in 1..Len(body) : body[i] = "."}, LAMBDA dots :
    With(IF dots = {} THEN Len(body) + 1 ELSE CHOOSE i \in dots : TRUE, LAMBDA dot :
    With(SubSeq(body, 1, dot - 1), LAMBDA ip :
    With(SubSeq(body, dot + 1, Len(body)), LAMBDA fp :
    With(DigitsVal(ip \o fp, 10), LAMBDA mag :
    IF /\ Cardinality(dots) <= 1
       /\ \A i \in 1..Len(body) : body[i] \in Digits \cup {"."}
       /\ Len(ip) + Len(fp) >= 1
    THEN [ok |-> TRUE, v |-> Normal(IF negative THEN 0 - mag ELSE mag, Len(fp))]
    ELSE [ok |-> FALSE, v |-> Int64(0)])))))))

\* `x as u64` / `x as usize` for an f64 x: truncation toward zero, saturating
\* at 0 for negative values.
as_u64(v) == IF v.n < 0 THEN 0 ELSE v.n \div Pow10(v.d)

\* str::trim
RECURSIVE trim(_)
trim(s) ==
    IF s = <<>> THEN s
    ELSE IF s[1] \in TrimWs THEN trim(Tail(s))
    ELSE IF s[Len(s)] \in TrimWs THEN trim(SubSeq(s, 1, Len(s) - 1))
    ELSE s

-----------------------------------------------------------------------------
(* Tokenizer: the private helpers *)

AtEOF(b, o) == o >= Len(b)

\* The first offset at or after o whose byte is in `cs`, or -1.
Find(b, o, cs) ==
    With({i \in o..(Len(b) - 1) : b[i + 1] \in cs}, LAMBDA hits :
    IF hits = {} THEN -1 ELSE CHOOSE i \in hits : \A j \in hits : i <= j)

\* The first offset at or after o whose byte is not in `cs`, or -1.
FindNot(b, o, cs) ==
    With({i \in o..(Len(b) - 1) : b[i + 1] \notin cs}, LAMBDA hits :
    IF hits = {} THEN -1 ELSE CHOOSE i \in hits : \A j \in hits : i <= j)

\* read_until: the bytes up to the first one in until_chars, which is consumed
\* unless seek_back; at end of file the loop just ends.
read_until(b, o, until_chars, seek_back) ==
    With(Find(b, o, until_chars), LAMBDA i :
    IF i = -1 THEN [s |-> SubSeq(b, o + 1, Len(b)), pos |-> Len(b)]
    ELSE [s |-> SubSeq(b, o + 1, i), pos |-> IF seek_back THEN i ELSE i + 1])

\* consume_whitespace: next_char().unwrap() panics when the file ends in
\* whitespace.
consume_whitespace(b, o) ==
    With(FindNot(b, o, SkippedWs), LAMBDA i :
    IF i = -1 THEN [ok |-> FALSE, pos |-> Len(b)] ELSE [ok |-> TRUE, pos |-> i])

NumberEnd == {SP, ">", "]", "[", "/", LF, CR}

\* read_number: res is "ok", "err" (the parse failed) or "panic".
read_number(b, o) ==
    With(consume_whitespace(b, o), LAMBDA w :
    IF ~w.ok THEN [res |-> "panic", v |-> Int64(0), pos |-> w.pos]
    ELSE With(read_until(b, w.pos, NumberEnd, TRUE), LAMBDA r :
         With(parse_f64(r.s), LAMBDA f :
         [res |-> IF f.ok THEN "ok" ELSE "err", v |-> f.v, pos |-> r.pos])))

read_comment(b, o) == read_until(b, o, {LF, CR}, FALSE)

\* read_n_chars: next_char().unwrap() panics at end of file.
read_n_chars(b, o, num_chars) ==
    IF o + num_chars > Len(b) THEN [ok |-> FALSE, s |-> <<>>, pos |-> Len(b)]
    ELSE [ok |-> TRUE, s |-> SubSeq(b, o + 1, o + num_chars), pos |-> o + num_chars]

\* read_object_header: both parses are unwrapped.
read_object_header(b, o) ==
    With(read_until(b, o, {SP}, FALSE), LAMBDA r1 :
    With(parse_u64(r1.s), LAMBDA object_number :
    With(read_until(b, r1.pos, {SP}, FALSE), LAMBDA r2 :
    With(parse_u64(r2.s), LAMBDA generation_number :
    With(read_n_chars(b, r2.pos, 3), LAMBDA k :
    IF ~object_number.ok \/ ~generation_number.ok \/ ~k.ok
    THEN [res |-> "panic", n |-> 0, g |-> 0, pos |-> 0]
    ELSE IF k.s = <<"o", "b", "j">>
    THEN [res |-> "ok", n |-> object_number.v, g |-> generation_number.v, pos |-> k.pos]
    ELSE [res |-> "err", n |-> 0, g |-> 0, pos |-> k.pos])))))

\* read_object_reference: a failed parse is an Err; only the read of the byte
\* after the generation number is unwrapped.
read_object_reference(b, o) ==
    With(read_until(b, o, {SP}, FALSE), LAMBDA r1 :
    With(parse_u64(r1.s), LAMBDA object_number :
    With(read_until(b, r1.pos, {SP}, FALSE), LAMBDA r2 :
    With(parse_u64(r2.s), LAMBDA generation_number :
    IF ~object_number.ok THEN [res |-> "err", n |-> 0, g |-> 0, pos |-> r1.pos]
    ELSE IF ~generation_number.ok THEN [res |-> "err", n |-> 0, g |-> 0, pos |-> r2.pos]
    ELSE IF AtEOF(b, r2.pos) THEN [res |-> "panic", n |-> 0, g |-> 0, pos |-> r2.pos]
    ELSE IF b[r2.pos + 1] = "R"
    THEN [res |-> "ok", n |-> object_number.v, g |-> generation_number.v,
          pos |-> r2.pos + 1]
    ELSE [res |-> "err", n |-> 0, g |-> 0, pos |-> r2.pos + 1]))))

\* get_state and pop_state unwrap: on an empty stack they panic.  Every caller
\* below tests st = <<>> first and yields Panic, so both are applied to
\* non-empty stacks only.
get_state(st) == st[Len(st)]
push_state(st, state) == Append(st, state)
pop_state(st) == SubSeq(st, 1, Len(st) - 1)

\* read_literal_string, called with the cursor on the opening parenthesis.
\* `depth` is the length of parenthesis_stack, `acc` is literal_string.
RECURSIVE LiteralLoop(_, _, _, _)
LiteralLoop(b, o, depth, acc) ==
    IF AtEOF(b, o) THEN [res |-> "panic", s |-> acc, pos |-> o]
    ELSE With(b[o + 1], LAMBDA c :
    CASE c = "(" ->
            LiteralLoop(b, o + 1, depth + 1, IF depth > 0 THEN Append(acc, c) ELSE acc)
      [] c = ")" ->
            \* Vec::pop on an empty stack is None and is ignored.
            IF depth <= 1 THEN [res |-> "ok", s |-> acc, pos |-> o + 1]
            ELSE LiteralLoop(b, o + 1, depth - 1, Append(acc, c))
      [] c = BSL ->
            IF AtEOF(b, o + 1) THEN [res |-> "panic", s |-> acc, pos |-> o + 1]
            ELSE With(b[o + 2], LAMBDA e :
            CASE e \in {BSL, "(", ")"} -> LiteralLoop(b, o + 2, depth, Append(acc, e))
              [] e = "r" -> LiteralLoop(b, o + 2, depth, Append(acc, CR))
              [] e = "n" -> LiteralLoop(b, o + 2, depth, Append(acc, LF))
              [] e = "b" -> LiteralLoop(b, o + 2, depth, Append(acc, BS))
              [] e = "t" -> LiteralLoop(b, o + 2, depth, Append(acc, HT))
              [] e = "f" -> LiteralLoop(b, o + 2, depth, Append(acc, FF))
              [] e \in Digits ->
                    \* exactly three characters, parsed in radix 8 and unwrapped
                    IF o + 4 > Len(b) THEN [res |-> "panic", s |-> acc, pos |-> Len(b)]
                    ELSE With(SubSeq(b, o + 2, o + 4), LAMBDA oct :
                         IF \A i \in 1..3 : oct[i] \in Digits \ {"8", "9"}
                         THEN LiteralLoop(b, o + 4, depth, Append(acc, Chr(DigitsVal(oct, 8))))
                         ELSE [res |-> "panic", s |-> acc, pos |-> o + 4])
              [] OTHER -> [res |-> "err", s |-> acc, pos |-> o + 2])
      [] OTHER -> LiteralLoop(b, o + 1, depth, Append(acc, c)))

\* A faulty variant of read_literal_string, which has the opening parenthesis
\* on parenthesis_stack before the loop reads it.
read_literal_string_pushed(b, o) == LiteralLoop(b, o, 1, <<>>)

read_literal_string(b, o) == LiteralLoop(b, o, 0, <<>>)

\* u8::from_str_radix(hex_byte, 16): one or two hex digits, or '+' and one.
HexByte(c1, c2) ==
    IF c1 \in HexDigits /\ c2 \in HexDigits
    THEN [ok |-> TRUE, v |-> 16 * DigitVal(c1) + DigitVal(c2)]
    ELSE IF c1 = "+" /\ c2 \in HexDigits THEN [ok |-> TRUE, v |-> DigitVal(c2)]
    ELSE [ok |-> FALSE, v |-> 0]

\* The loop of hex_string_to_bytes: String::pop takes the LAST character, so
\* each byte is made of the last character followed by the one before it, and
\* the bytes come out from the end of the string to its start.
RECURSIVE HexPopLoop(_, _)
HexPopLoop(h, bytes) ==
    IF h = <<>> THEN [ok |-> TRUE, bytes |-> bytes]
    ELSE With(HexByte(h[Len(h)], h[Len(h) - 1]), LAMBDA hex_byte :
         IF ~hex_byte.ok THEN [ok |-> FALSE, bytes |-> bytes]
         ELSE HexPopLoop(SubSeq(h, 1, Len(h) - 2), Append(bytes, hex_byte.v)))

\* hex_string_to_bytes: ok = FALSE is the unwrap of from_str_radix panicking.
hex_string_to_bytes(hex_string) ==
    HexPopLoop(IF Len(hex_string) % 2 = 1 THEN Append(hex_string, "0") ELSE hex_string,
               <<>>)

-----------------------------------------------------------------------------
(* Tokenizer: next.  A result is [res, tok, pos, stack]: res is "ok" (Ok of  *)
(* tok), "err" (an Err returned to the caller) or "panic"; pos and stack are *)
(* the cursor and the state stack the call leaves behind.                    *)

Ok(tok, o, st) == [res |-> "ok", tok |-> tok, pos |-> o, stack |-> st]
Err(o, st) == [res |-> "err", tok |-> [t |-> "Err"], pos |-> o, stack |-> st]
Panic(o, st) == [res |-> "panic", tok |-> [t |-> "Panic"], pos |-> o, stack |-> st]

Tok(t) == [t |-> t]
NameTok(s) == [t |-> "Name", name |-> s]
NumberTok(v) == [t |-> "Number", num |-> v]
RefTok(n, g) == [t |-> "ObjectReference", object_number |-> n, generation_number |-> g]
StringTok(s) == [t |-> "String", str |-> s]
HexStringTok(bytes) == [t |-> "HexString", bytes |-> bytes]
BooleanTok(v) == [t |-> "Boolean", bool |-> v]

KwStartxref == <<"s", "t", "a", "r", "t", "x", "r", "e", "f">>
KwXref == <<"x", "r", "e", "f">>
KwTrailer == <<"t", "r", "a", "i", "l", "e", "r">>
KwStream == <<"s", "t", "r", "e", "a", "m">>
KwEndstream == <<"e", "n", "d", "s", "t", "r", "e", "a", "m">>
KwEndobj == <<"e", "n", "d", "o", "b", "j">>
KwTrue == <<"t", "r", "u", "e">>
KwFalse == <<"f", "a", "l", "s", "e">>
KwNull == <<"n", "u", "l", "l">>
KwEOF == <<"%", "E", "O", "F">>

\* A comment arm of Start that stays in Start after `%%EOF`.
StartCommentKept(r, comment, st) ==
    IF comment = KwEOF
    THEN Ok(Tok("DocumentEnd"), r.pos, st)
    ELSE Ok([t |-> "Comment", text |-> comment], r.pos, st)

\* TokenizerState::Start, with the cursor o just past the byte c.
StartComment(r, comment, st) ==
    IF comment = KwEOF
    THEN Ok(Tok("DocumentEnd"), r.pos, push_state(pop_state(st), "DocumentEnd"))
    ELSE Ok([t |-> "Comment", text |-> comment], r.pos, st)

StartHeader(h, st2) ==
    CASE h.res = "ok" ->
            Ok([t |-> "ObjectHeader", object_number |-> h.n, generation_number |-> h.g],
               h.pos, st2)
      [] h.res = "err" -> Err(h.pos, st2)
      [] OTHER -> Panic(h.pos, st2)

StartXRefOffset(n, st) ==
    IF n.res = "ok" THEN Ok([t |-> "StartXRef", offset |-> as_u64(n.v)], n.pos, st)
    ELSE Panic(n.pos, st)

\* A keyword of Start: the word up to the next SP, LF or CR must be `kw`.
StartKeyword(r, kw, tok, st2, st) ==
    IF r.s = kw THEN Ok(tok, r.pos, st2) ELSE Panic(r.pos, st)

NextStart(b, o, st, c) ==
    CASE c = "%" ->
            With(read_comment(b, o), LAMBDA r : StartComment(r, trim(r.s), st))
      [] c \in NonZeroDigits ->
            StartHeader(read_object_header(b, o - 1), push_state(pop_state(st), "Object"))
      [] c = "s" ->
            With(read_until(b, o - 1, SkippedWs, FALSE), LAMBDA r :
            IF r.s = KwStartxref THEN StartXRefOffset(read_number(b, r.pos), st)
            ELSE Panic(r.pos, st))
      [] c = "x" ->
            StartKeyword(read_until(b, o - 1, SkippedWs, FALSE), KwXref,
                         Tok("XRefSectionBegin"), push_state(st, "XRefSection"), st)
      [] c = "t" ->
            StartKeyword(read_until(b, o - 1, SkippedWs, FALSE), KwTrailer,
                         Tok("TrailerBegin"), push_state(st, "Trailer"), st)
      [] OTHER -> Panic(o, st)

\* The arm '(' of Object, DictionaryValue and ListValue: the cursor goes back
\* onto the parenthesis and `?` passes an Err of read_literal_string on.
LiteralResult(r, st) ==
    CASE r.res = "ok" -> Ok(StringTok(r.s), r.pos, st)
      [] r.res = "err" -> Err(r.pos, st)
      [] OTHER -> Panic(r.pos, st)

LiteralArm(b, o, st) == LiteralResult(read_literal_string(b, o - 1), st)

\* The keyword `stream` of Object: the whitespace after it is consumed.
StreamKeyword(w, st) ==
    IF w.ok THEN Ok(Tok("StreamBegin"), w.pos, push_state(st, "Stream"))
    ELSE Panic(w.pos, st)

\* TokenizerState::Object
NextObject(b, o, st, c) ==
    CASE c = "<" ->
            IF AtEOF(b, o) THEN Panic(o, st)
            ELSE IF b[o + 1] = "<"
            THEN Ok(Tok("DictionaryStart"), o + 1, push_state(st, "DictionaryKey"))
            ELSE Err(o + 1, st)
      [] c = "[" -> Ok(Tok("ArrayStart"), o, push_state(st, "ListValue"))
      [] c = "s" ->
            With(read_until(b, o - 1, SkippedWs, FALSE), LAMBDA r :
            IF r.s = KwStream THEN StreamKeyword(consume_whitespace(b, r.pos), st)
            ELSE Panic(r.pos, st))
      [] c = "e" ->
            With(read_until(b, o - 1, SkippedWs, FALSE), LAMBDA r :
            IF trim(r.s) = KwEndobj
            THEN Ok(Tok("ObjectEnd"), r.pos, push_state(pop_state(st), "Start"))
            ELSE Panic(r.pos, st))
      [] c = "(" -> LiteralArm(b, o, st)
      [] OTHER -> Panic(o, st)

\* A faulty variant of DictionaryEnd, which leaves the DictionaryValue of the
\* enclosing dictionary on the stack.
DictionaryEndOnce(o, st1) ==
    IF st1 = <<>> THEN Panic(o, st1) ELSE Ok(Tok("DictionaryEnd"), o, st1)

\* The `>>` of DictionaryKey: the state is popped, and once more when the
\* dictionary was itself the value of a key.
DictionaryEnd(o, st1) ==
    IF st1 = <<>> THEN Panic(o, st1)
    ELSE IF get_state(st1) = "DictionaryValue"
    THEN Ok(Tok("DictionaryEnd"), o, pop_state(st1))
    ELSE Ok(Tok("DictionaryEnd"), o, st1)

NameResult(r, st) == Ok(NameTok(r.s), r.pos, st)

\* TokenizerState::DictionaryKey
NextDictionaryKey(b, o, st, c) ==
    CASE c = "/" ->
            NameResult(read_until(b, o, {SP, "/", "<", "[", "(", CR, LF}, TRUE),
                       push_state(st, "DictionaryValue"))
      [] c = ">" ->
            IF AtEOF(b, o) THEN Panic(o, st)
            ELSE IF b[o + 1] = ">" THEN DictionaryEnd(o + 1, pop_state(st))
            ELSE Err(o + 1, st)
      [] OTHER -> Panic(o, st)

\* The Number read when the speculative read of a reference fails.
NumberResult(n, done) ==
    IF n.res = "ok" THEN Ok(NumberTok(n.v), n.pos, done) ELSE Panic(n.pos, done)

\* A faulty variant of ReferenceResult, which does not seek back to `offset`
\* before it reads the Number.
ReferenceNoSeek(b, offset, ref, done) ==
    CASE ref.res = "panic" -> Panic(ref.pos, done)
      [] ref.res = "ok" -> Ok(RefTok(ref.n, ref.g), ref.pos, done)
      [] OTHER -> NumberResult(read_number(b, ref.pos), done)

\* A faulty variant of ReferenceResult, which takes the Number arm whatever
\* read_object_reference returned.
ReferenceIgnored(b, offset, ref, done) ==
    IF ref.res = "panic" THEN Panic(ref.pos, done)
    ELSE NumberResult(read_number(b, offset), done)

\* The arm '0'..='9' | '-' of DictionaryValue and ListValue: the speculative
\* read of `N G R` from `offset`, and the Number read from `offset` again when
\* it fails.  `done` is the stack a complete value leaves.
ReferenceResult(b, offset, ref, done) ==
    CASE ref.res = "panic" -> Panic(ref.pos, done)
      [] ref.res = "ok" -> Ok(RefTok(ref.n, ref.g), ref.pos, done)
      [] OTHER -> NumberResult(read_number(b, offset), done)

NumberOrReference(b, o, done) ==
    ReferenceResult(b, o - 1, read_object_reference(b, o - 1), done)

HexResult(r, h, done) ==
    IF h.ok THEN Ok(HexStringTok(h.bytes), r.pos, done) ELSE Panic(r.pos, done)

\* The arm '<' of DictionaryValue and ListValue.  The byte after '<' is
\* consumed by the match and the hex digits are read from the byte after it.
HexOrDictionary(b, o, st, done) ==
    IF AtEOF(b, o) THEN Panic(o, st)
    ELSE IF b[o + 1] = "<"
    THEN Ok(Tok("DictionaryStart"), o + 1, push_state(st, "DictionaryKey"))
    ELSE IF b[o + 1] \in LowerAZ \cup UpperAZ \cup Digits
    THEN With(read_until(b, o + 1, {">"}, FALSE), LAMBDA r :
         HexResult(r, hex_string_to_bytes(r.s), done))
    ELSE Err(o + 1, st)

NullResult(r, st) ==
    IF r.s = KwNull THEN Ok(Tok("Null"), r.pos, st) ELSE Err(r.pos, st)

\* true / false in DictionaryValue: the word is trimmed and anything else is
\* a panic!.
DictionaryBoolean(r, w, st) ==
    CASE w = KwTrue -> Ok(BooleanTok(TRUE), r.pos, pop_state(st))
      [] w = KwFalse -> Ok(BooleanTok(FALSE), r.pos, pop_state(st))
      [] OTHER -> Panic(r.pos, st)

\* TokenizerState::DictionaryValue
NextDictionaryValue(b, o, st, c) ==
    CASE c = "[" -> Ok(Tok("ArrayStart"), o, push_state(pop_state(st), "ListValue"))
      [] c = "/" ->
            NameResult(read_until(b, o, {SP, "]", "/", LF, ">"}, TRUE), pop_state(st))
      [] c \in {"t", "f"} ->
            With(read_until(b, o - 1, {LF, "/", ">"}, TRUE), LAMBDA r :
            DictionaryBoolean(r, trim(r.s), st))
      [] c \in Digits \cup {"-"} -> NumberOrReference(b, o, pop_state(st))
      [] c = "<" -> HexOrDictionary(b, o, st, pop_state(st))
      [] c = "n" ->
            \* the state is not popped
            NullResult(read_until(b, o - 1, {"]", SP, LF}, TRUE), st)
      [] c = "(" -> LiteralArm(b, o, pop_state(st))
      [] OTHER -> Err(o, st)

\* true / false in ListValue: anything else is an Err.
ListBoolean(r, st) ==
    CASE r.s = KwTrue -> Ok(BooleanTok(TRUE), r.pos, st)
      [] r.s = KwFalse -> Ok(BooleanTok(FALSE), r.pos, st)
      [] OTHER -> Err(r.pos, st)

\* TokenizerState::ListValue
NextListValue(b, o, st, c) ==
    CASE c = "]" -> Ok(Tok("ArrayEnd"), o, pop_state(st))
      [] c = "[" -> Ok(Tok("ArrayStart"), o, push_state(st, "ListValue"))
      [] c = "/" -> NameResult(read_until(b, o, {SP, "]"}, TRUE), st)
      [] c \in Digits \cup {"-"} -> NumberOrReference(b, o, st)
      [] c = "<" -> HexOrDictionary(b, o, st, st)
      [] c = "n" -> NullResult(read_until(b, o - 1, {"]", SP, LF}, TRUE), st)
      [] c \in {"t", "f"} -> ListBoolean(read_until(b, o - 1, {"]", SP, ">", LF}, TRUE), st)
      [] c = "(" -> LiteralArm(b, o, st)
      [] OTHER -> Err(o, st)

\* TokenizerState::StreamEnd
NextStreamEnd(b, o, st, c) ==
    IF c = "e"
    THEN With(read_until(b, o - 1, SkippedWs, FALSE), LAMBDA r :
         IF r.s = KwEndstream THEN Ok(Tok("StreamEnd"), r.pos, pop_state(st))
         ELSE Panic(r.pos, st))
    ELSE Err(o, st)

\* The two numbers that open an xref subsection header and an xref entry.
\* The result of the next_char between them is dropped, so the end of the
\* file there is no panic.
TwoNumbers(b, o) ==
    With(read_number(b, o), LAMBDA n1 :
    IF n1.res # "ok" THEN [ok |-> FALSE, v1 |-> 0, v2 |-> 0, pos |-> n1.pos]
    ELSE With(read_number(b, IF AtEOF(b, n1.pos) THEN n1.pos ELSE n1.pos + 1), LAMBDA n2 :
         [ok |-> n2.res = "ok", v1 |-> as_u64(n1.v), v2 |-> as_u64(n2.v), pos |-> n2.pos]))

SubSectionHeader(two, r, st) ==
    Ok([t |-> "XRefSubSectionHeader", first_object_number |-> two.v1,
        num_entries |-> two.v2], r.pos, push_state(st, "XRefEntry"))

\* TokenizerState::XRefSection
NextXRefSection(b, o, st) ==
    With(TwoNumbers(b, o), LAMBDA two :
    IF ~two.ok THEN Panic(two.pos, st)
    ELSE SubSectionHeader(two, read_until(b, two.pos, {LF}, FALSE), st))

EntryResult(two, r, w, st) ==
    IF w \in {<<"f">>, <<"n">>}
    THEN Ok([t |-> "XRefEntry", byte_offset |-> two.v1, generation_number |-> two.v2,
             free |-> (w = <<"f">>)], r.pos, st)
    ELSE Err(r.pos, st)

\* TokenizerState::XRefEntry
NextXRefEntry(b, o, st) ==
    With(TwoNumbers(b, o), LAMBDA two :
    IF ~two.ok THEN Panic(two.pos, st)
    ELSE With(read_until(b, two.pos, {LF}, FALSE), LAMBDA r :
         EntryResult(two, r, trim(r.s), st)))

\* TokenizerState::Trailer: only LF is skipped before the `<<`.
NextTrailer(b, o, st) ==
    With(FindNot(b, o, {LF}), LAMBDA i :
    IF i = -1 THEN Panic(Len(b), st)
    ELSE IF b[i + 1] = "<"
    THEN IF AtEOF(b, i + 1) THEN Panic(i + 1, st)
         ELSE IF b[i + 2] = "<"
         THEN Ok(Tok("DictionaryStart"), i + 2,
                 push_state(pop_state(st), "DictionaryKey"))
         ELSE Err(i + 2, st)
    ELSE Err(i + 1, st))

\* The states that dispatch on a byte: c is the byte and o the cursor past it.
Dispatch(b, o, st, state, c) ==
    CASE state = "Start" -> NextStart(b, o, st, c)
      [] state = "Object" -> NextObject(b, o, st, c)
      [] state = "DictionaryKey" -> NextDictionaryKey(b, o, st, c)
      [] state = "DictionaryValue" -> NextDictionaryValue(b, o, st, c)
      [] state = "ListValue" -> NextListValue(b, o, st, c)
      [] state = "StreamEnd" -> NextStreamEnd(b, o, st, c)

\* The loop of next for those states: SP, LF and CR are skipped, and the
\* unwrap of next_char panics at the end of the file.
SkipAndDispatch(b, i, st, state) ==
    IF i = -1 THEN Panic(Len(b), st) ELSE Dispatch(b, i + 1, st, state, b[i + 1])

NextIn(b, o, st, state) ==
    CASE state = "DocumentEnd" -> Err(o, st)
      [] state = "Stream" -> Err(o, st)
      [] state = "XRefSection" -> NextXRefSection(b, o, st)
      [] state = "XRefEntry" -> NextXRefEntry(b, o, st)
      [] state = "Trailer" -> NextTrailer(b, o, st)
      [] OTHER -> SkipAndDispatch(b, FindNot(b, o, SkippedWs), st, state)

\* PDFTokenize::next from cursor o with state stack st.  The state is read
\* once, before the loop (get_state unwraps the top of the stack).
next(b, o, st) ==
    IF st = <<>> THEN Panic(o, st) ELSE NextIn(b, o, st, get_state(st))

-----------------------------------------------------------------------------
(* Tokenizer: peak_next, peak_multiple, get_stream *)

\* A faulty variant of Restore, which puts the offset back and keeps the
\* state stack that next left.
RestoreOffsetOnly(next_token, offset_before_peak, state_stack_before_peak) ==
    IF next_token.res = "panic" THEN next_token
    ELSE [next_token EXCEPT !.pos = offset_before_peak]

\* The end of peak_next: the saved state stack and offset are put back before
\* the result is returned (a panic of next unwinds through it).
Restore(next_token, offset_before_peak, state_stack_before_peak) ==
    IF next_token.res = "panic" THEN next_token
    ELSE [next_token EXCEPT !.pos = offset_before_peak,
                            !.stack = state_stack_before_peak]

\* peak_next
peak_next(b, o, st) == Restore(next(b, o, st), o, st)

\* The number of times the loop `for _ in 1..num_tokens` runs.
PeakIterations(num_tokens) == IF num_tokens >= 1 THEN num_tokens - 1 ELSE 0

\* The loop of peak_multiple: `?` returns an Err of next at once, with the
\* cursor and the stack where that next left them.
RECURSIVE PeakLoop(_, _, _, _, _)
PeakLoop(b, o, st, iterations, tokens) ==
    IF iterations = 0 THEN [res |-> "ok", toks |-> tokens, pos |-> o, stack |-> st]
    ELSE With(next(b, o, st), LAMBDA r :
         IF r.res = "ok"
         THEN PeakLoop(b, r.pos, r.stack, iterations - 1, Append(tokens, r.tok))
         ELSE [res |-> r.res, toks |-> <<>>, pos |-> r.pos, stack |-> r.stack])

\* The end of peak_multiple: the stack and the offset are put back after the
\* loop, which an Err has already left.
RestoreMultiple(l, offset_before_peak, state_stack_before_peak) ==
    IF l.res = "ok"
    THEN [l EXCEPT !.pos = offset_before_peak, !.stack = state_stack_before_peak]
    ELSE l

\* peak_multiple
peak_multiple(b, o, st, num_tokens) ==
    RestoreMultiple(PeakLoop(b, o, st, PeakIterations(num_tokens), <<>>), o, st)

\* A get_stream that leaves the state stack as it is.
get_stream_kept(b, o, st, num_bytes) ==
    IF o + num_bytes > Len(b) \/ st = <<>>
    THEN [res |-> "panic", bytes |-> <<>>, pos |-> Len(b), stack |-> st]
    ELSE [res |-> "ok", bytes |-> SubSeq(b, o + 1, o + num_bytes),
          pos |-> o + num_bytes, stack |-> st]

\* get_stream: read_exact is unwrapped; the top state is replaced by StreamEnd.
get_stream(b, o, st, num_bytes) ==
    IF o + num_bytes > Len(b) \/ st = <<>>
    THEN [res |-> "panic", bytes |-> <<>>, pos |-> Len(b), stack |-> st]
    ELSE [res |-> "ok", bytes |-> SubSeq(b, o + 1, o + num_bytes),
          pos |-> o + num_bytes, stack |-> push_state(pop_state(st), "StreamEnd")]

-----------------------------------------------------------------------------
(* Reader: the value parser.  A result is [res, val, pos, stack, calls]:    *)
(* res is "ok", "err" or "panic", and calls lists the calls made on the     *)
(* tokenizer, in order, each with what it returned and where it left the    *)
(* cursor.  `dbg` says whether debug! evaluates its arguments (the log      *)
(* crate evaluates them only when the level is enabled).                    *)

NoVal == [t |-> "None"]
VNull == [t |-> "Null"]
VBoolean(x) == [t |-> "Boolean", bool |-> x]
VNumber(v) == [t |-> "Number", num |-> v]
VString(s) == [t |-> "String", str |-> s]
VName(s) == [t |-> "Name", name |-> s]
VBytes(bytes) == [t |-> "Bytes", bytes |-> bytes]
VArray(items) == [t |-> "Array", items |-> items]
VDictionary(d) == [t |-> "Dictionary", dictionary |-> d]
VObjectReference(n, g) ==
    [t |-> "ObjectReference", object_number |-> n, generation_number |-> g]
VStream(d, bytes) == [t |-> "Stream", dictionary |-> d, bytes |-> bytes]

\* PDFDictionary = HashMap<String, PDFValue>: a function on the set of keys.
EmptyDictionary == [k \in {} |-> NoVal]
insert(d, key, value) ==
    [k \in DOMAIN d \cup {key} |-> IF k = key THEN value ELSE d[k]]

POk(val, r, cs) == [res |-> "ok", val |-> val, pos |-> r.pos, stack |-> r.stack, calls |-> cs]
PErr(r, cs) == [res |-> "err", val |-> NoVal, pos |-> r.pos, stack |-> r.stack, calls |-> cs]
PPanic(r, cs) == [res |-> "panic", val |-> NoVal, pos |-> r.pos, stack |-> r.stack, calls |-> cs]

\* One entry of calls.
Called(op, r) ==
    [op |-> op, res |-> r.res, tok |-> r.tok, pos |-> r.pos, stack |-> r.stack]
CalledGetStream(g, num_bytes) ==
    [op |-> "get_stream", res |-> g.res,
     tok |-> [t |-> "Bytes", bytes |-> g.bytes, num_bytes |-> num_bytes],
     pos |-> g.pos, stack |-> g.stack]

KeyLength == <<"L", "e", "n", "g", "t", "h">>

\* The end of parse_stream: the token after the bytes must be StreamEnd.
StreamResult(stream_dictionary, g, next_token, cs) ==
    CASE next_token.res = "panic" -> PPanic(next_token, cs)
      [] next_token.res = "err" -> PErr(next_token, cs)
      [] next_token.tok.t = "StreamEnd" ->
            POk(VStream(stream_dictionary, g.bytes), next_token, cs)
      [] OTHER -> PErr(next_token, cs)

StreamBytes(b, stream_dictionary, g, cs) ==
    IF g.res = "panic" THEN PPanic(g, cs)
    ELSE With(next(b, g.pos, g.stack), LAMBDA next_token :
         StreamResult(stream_dictionary, g, next_token,
                      Append(cs, Called("next", next_token))))

\* parse_stream, entered with cursor and stack `at`: Length must be a Number,
\* and `*length as usize` bytes are read.
parse_stream(b, at, stream_dictionary, cs) ==
    IF KeyLength \notin DOMAIN stream_dictionary THEN PErr(at, cs)
    ELSE IF stream_dictionary[KeyLength].t # "Number" THEN PErr(at, cs)
    ELSE With(as_u64(stream_dictionary[KeyLength].num), LAMBDA length :
         With(get_stream(b, at.pos, at.stack, length), LAMBDA g :
         StreamBytes(b, stream_dictionary, g, Append(cs, CalledGetStream(g, length)))))

RECURSIVE parse_value(_, _, _, _, _)
RECURSIVE ArrayLoop(_, _, _, _, _, _)
RECURSIVE DictionaryLoop(_, _, _, _, _, _)

\* The ArrayEnd that peak_next saw is consumed by a next that is unwrapped.
ArrayEnd(values, r, cs) ==
    IF r.res = "ok" THEN POk(VArray(values), r, Append(cs, Called("next", r)))
    ELSE PPanic(r, Append(cs, Called("next", r)))

ArrayValue(b, dbg, v, values) ==
    IF v.res = "ok" THEN ArrayLoop(b, v.pos, v.stack, dbg, v.calls, Append(values, v.val))
    ELSE PPanic(v, v.calls)

ArrayPeeked(b, o, st, dbg, cs, values, next_token) ==
    CASE next_token.res = "panic" -> PPanic(next_token, cs)
      [] next_token.res = "err" -> PErr(next_token, cs)
      [] next_token.tok.t = "ArrayEnd" -> ArrayEnd(values, next(b, o, st), cs)
      [] OTHER -> ArrayValue(b, dbg, parse_value(b, o, st, dbg, cs), values)

\* The loop of parse_array: peak_next decides between the end of the array
\* and one more value, whose parse is unwrapped.
ArrayLoop(b, o, st, dbg, cs, values) ==
    With(peak_next(b, o, st), LAMBDA next_token :
    ArrayPeeked(b, o, st, dbg, Append(cs, Called("peak_next", next_token)), values,
                next_token))

parse_array(b, o, st, dbg, cs) == ArrayLoop(b, o, st, dbg, cs, <<>>)

DictionaryValue(b, dbg, dictionary, key, v) ==
    IF v.res = "ok"
    THEN DictionaryLoop(b, v.pos, v.stack, dbg, v.calls, insert(dictionary, key, v.val))
    ELSE PPanic(v, v.calls)

DictionaryToken(b, dbg, cs, dictionary, token) ==
    CASE token.res = "panic" -> PPanic(token, cs)
      [] token.res = "err" -> PErr(token, cs)
      [] token.tok.t = "DictionaryEnd" -> POk(dictionary, token, cs)
      [] token.tok.t = "Name" ->
            DictionaryValue(b, dbg, dictionary, token.tok.name,
                            parse_value(b, token.pos, token.stack, dbg, cs))
      [] OTHER -> PErr(token, cs)

\* The loop of parse_dictionary: a key, then a value whose parse is unwrapped.
DictionaryLoop(b, o, st, dbg, cs, dictionary) ==
    With(next(b, o, st), LAMBDA token :
    DictionaryToken(b, dbg, Append(cs, Called("next", token)), dictionary, token))

parse_dictionary(b, o, st, dbg, cs) ==
    DictionaryLoop(b, o, st, dbg, cs, EmptyDictionary)

\* debug!("{:?}", self.tokenizer.next()): the call of next that consumes the
\* StreamBegin token is an argument of debug!.
StreamAfterDebug(b, d, consumed, cs) ==
    IF consumed.res = "panic" THEN PPanic(consumed, Append(cs, Called("next", consumed)))
    ELSE parse_stream(b, consumed, d.val, Append(cs, Called("next", consumed)))

DictionaryPeeked(b, dbg, d, peeked, cs) ==
    CASE peeked.res = "panic" -> PPanic(peeked, cs)
      [] peeked.res = "err" -> PErr(peeked, cs)
      [] peeked.tok.t = "StreamBegin" ->
            IF dbg THEN StreamAfterDebug(b, d, next(b, d.pos, d.stack), cs)
            ELSE parse_stream(b, d, d.val, cs)
      [] OTHER -> POk(VDictionary(d.val), d, cs)

DictionaryParsed(b, dbg, d) ==
    IF d.res # "ok" THEN PPanic(d, d.calls)
    ELSE With(peak_next(b, d.pos, d.stack), LAMBDA peeked :
         DictionaryPeeked(b, dbg, d, peeked, Append(d.calls, Called("peak_next", peeked))))

\* The arm DictionaryStart of parse_value: the dictionary's parse is
\* unwrapped, and peak_next tells a stream from a plain dictionary.
DictionaryOrStream(b, o, st, dbg, cs) ==
    DictionaryParsed(b, dbg, parse_dictionary(b, o, st, dbg, cs))

ValueOf(b, dbg, token, tok, cs) ==
    CASE token.res = "panic" -> PPanic(token, cs)
      [] token.res = "err" -> PErr(token, cs)
      [] tok.t = "ArrayStart" -> parse_array(b, token.pos, token.stack, dbg, cs)
      [] tok.t = "DictionaryStart" ->
            DictionaryOrStream(b, token.pos, token.stack, dbg, cs)
      [] tok.t = "Name" -> POk(VString(tok.name), token, cs)
      [] tok.t = "String" -> POk(VString(tok.str), token, cs)
      [] tok.t = "Number" -> POk(VNumber(tok.num), token, cs)
      [] tok.t = "Boolean" -> POk(VBoolean(tok.bool), token, cs)
      [] tok.t = "ObjectReference" ->
            POk(VObjectReference(tok.object_number, tok.generation_number), token, cs)
      [] tok.t = "Null" -> POk(VNull, token, cs)
      [] tok.t = "HexString" -> POk(VBytes(tok.bytes), token, cs)
      [] OTHER -> PPanic(token, cs)

\* parse_value
parse_value(b, o, st, dbg, cs) ==
    With(next(b, o, st), LAMBDA token :
    ValueOf(b, dbg, token, token.tok, Append(cs, Called("next", token))))

ObjectEnd(offset, header, v, next_token, cs) ==
    CASE next_token.res = "panic" -> PPanic(next_token, cs)
      [] next_token.res = "err" -> PErr(next_token, cs)
      [] next_token.tok.t = "ObjectEnd" ->
            POk([header |-> header, value |-> v.val, offset |-> offset], next_token, cs)
      [] OTHER -> PErr(next_token, cs)

ObjectValue(b, offset, header, v) ==
    IF v.res # "ok" THEN PPanic(v, v.calls)
    ELSE With(next(b, v.pos, v.stack), LAMBDA next_token :
         ObjectEnd(offset, header, v, next_token,
                   Append(v.calls, Called("next", next_token))))

\* parse_object: the value's parse is unwrapped; an Err of the next token or a
\* token other than ObjectEnd is an Err (which parse unwraps).
parse_object(b, o, st, dbg, cs, offset, header) ==
    ObjectValue(b, offset, header, parse_value(b, o, st, dbg, cs))

RECURSIVE XRefLoop(_, _, _, _, _, _)

XRefToken(b, left, cs, entries, token) ==
    CASE token.res = "panic" -> PPanic(token, cs)
      [] token.res = "err" -> PErr(token, cs)
      [] token.tok.t = "XRefEntry" ->
            XRefLoop(b, token.pos, token.stack, left - 1, cs, Append(entries, token.tok))
      [] OTHER -> PErr(token, cs)

\* The loop of get_xref_table: num_entries XRefEntry tokens, then two states
\* are popped (Vec::pop, which an empty stack does not make panic).
XRefLoop(b, o, st, left, cs, entries) ==
    IF left = 0
    THEN POk(entries, [pos |-> o, stack |-> SubSeq(st, 1, Len(st) - 2)], cs)
    ELSE With(next(b, o, st), LAMBDA token :
         XRefToken(b, left, Append(cs, Called("next", token)), entries, token))

\* get_xref_table: any state but XRefEntry is a panic!.
get_xref_table(b, o, st, num_entries, cs) ==
    IF st = <<>> \/ get_state(st) # "XRefEntry"
    THEN PPanic([pos |-> o, stack |-> st], cs)
    ELSE XRefLoop(b, o, st, num_entries, cs, <<>>)

XRefTable(header, e) ==
    IF e.res = "ok" THEN POk([header |-> header, entries |-> e.val], e, e.calls)
    ELSE PPanic(e, e.calls)

XRefHeader(b, token, cs) ==
    CASE token.res = "panic" -> PPanic(token, cs)
      [] token.res = "err" -> PErr(token, cs)
      [] token.tok.t = "XRefSubSectionHeader" ->
            XRefTable(token.tok,
                      get_xref_table(b, token.pos, token.stack, token.tok.num_entries, cs))
      [] OTHER -> PErr(token, cs)

\* parse_xref: the subsection header, then the table, whose Err is unwrapped.
parse_xref(b, o, st, cs) ==
    With(next(b, o, st), LAMBDA token :
    XRefHeader(b, token, Append(cs, Called("next", token))))

-----------------------------------------------------------------------------
(* Reader: one iteration of the loop of parse *)

None == [some |-> FALSE]
Some(v) == [some |-> TRUE, v |-> v]

\* PDF::default()
EmptyPdf ==
    [version |-> None, objects |-> [h \in {} |-> NoVal], startxref |-> None,
     root |-> None, trailer |-> None, xref_table |-> None, pages |-> <<>>]

\* is_version: ^PDF-(\d\.\d)$
is_version(comment) ==
    /\ Len(comment) = 7
    /\ SubSeq(comment, 1, 4) = <<"P", "D", "F", "-">>
    /\ comment[5] \in Digits /\ comment[6] = "." /\ comment[7] \in Digits

Header(tok) ==
    [object_number |-> tok.object_number, generation_number |-> tok.generation_number]

\* What one iteration of the loop leaves: [res, pdf, pos, stack, calls, done],
\* where done is the `break` on DocumentEnd and res = "panic" covers the
\* unwraps and panic!s of the arms.
Step(res, doc, r, calls, done) ==
    [res |-> res, pdf |-> doc, pos |-> r.pos, stack |-> r.stack, calls |-> calls,
     done |-> done]

\* An ObjectHeader arm that keeps the entry an ObjectId already has.
StepObjectKept(doc, ob) ==
    IF ob.res = "ok"
    THEN Step("ok", IF ob.val.header \in DOMAIN doc.objects THEN doc
                    ELSE [doc EXCEPT !.objects = insert(@, ob.val.header, ob.val)],
              ob, ob.calls, FALSE)
    ELSE Step("panic", doc, ob, ob.calls, FALSE)

StepObject(doc, ob) ==
    IF ob.res = "ok"
    THEN Step("ok", [doc EXCEPT !.objects = insert(@, ob.val.header, ob.val)],
              ob, ob.calls, FALSE)
    ELSE Step("panic", doc, ob, ob.calls, FALSE)

\* The XRefSection that parse_xref returns is dropped.
StepXRef(doc, x) ==
    Step(IF x.res = "ok" THEN "ok" ELSE "panic", doc, x, x.calls, FALSE)

StepTrailer(doc, v) ==
    IF v.res = "ok" /\ v.val.t = "Dictionary"
    THEN Step("ok", [doc EXCEPT !.trailer = Some(v.val.dictionary)], v, v.calls, FALSE)
    ELSE Step("panic", doc, v, v.calls, FALSE)

StepToken(b, current_offset, dbg, doc, token, tok, cs) ==
    CASE token.res # "ok" -> Step("panic", doc, token, cs, FALSE)
      [] tok.t = "Comment" ->
            Step("ok", IF is_version(tok.text) THEN [doc EXCEPT !.version = Some(tok.text)]
                       ELSE doc, token, cs, FALSE)
      [] tok.t = "ObjectHeader" ->
            StepObject(doc, parse_object(b, token.pos, token.stack, dbg, cs,
                                         current_offset, Header(tok)))
      [] tok.t = "StartXRef" ->
            Step("ok", [doc EXCEPT !.startxref = Some(tok.offset)], token, cs, FALSE)
      [] tok.t = "DocumentEnd" -> Step("ok", doc, token, cs, TRUE)
      [] tok.t = "XRefSectionBegin" ->
            StepXRef(doc, parse_xref(b, token.pos, token.stack, cs))
      [] tok.t = "TrailerBegin" ->
            StepTrailer(doc, parse_value(b, token.pos, token.stack, dbg, cs))
      [] OTHER -> Step("panic", doc, token, cs, FALSE)

\* The body of `loop` in parse.
parse_step(b, o, st, dbg, doc) ==
    With(next(b, o, st), LAMBDA token :
    StepToken(b, o, dbg, doc, token, token.tok, <<Called("next", token)>>))

-----------------------------------------------------------------------------
(* Reader: the page tree.  A result is [res, val]: res is "ok", "err" or    *)
(* "panic" (an unwrap, an expect, a panic! or a failed assert!).            *)

KeyRoot == <<"R", "o", "o", "t">>
KeyPages == <<"P", "a", "g", "e", "s">>
KeyKids == <<"K", "i", "d", "s">>
KeyContents == <<"C", "o", "n", "t", "e", "n", "t", "s">>
KeyW == <<"W">>
KeySize == <<"S", "i", "z", "e">>

BOk(val) == [res |-> "ok", val |-> val]
BErr == [res |-> "err", val |-> NoVal]
BPanic == [res |-> "panic", val |-> NoVal]

\* read_u64: num_bytes bytes of `bytes` from offset `at`, big-endian.
RECURSIVE BigEndian(_)
BigEndian(s) ==
    IF s = <<>> THEN 0 ELSE BigEndian(SubSeq(s, 1, Len(s) - 1)) * 256 + s[Len(s)]

read_u64(bytes, at, num_bytes) ==
    IF num_bytes > 8 \/ at + num_bytes > Len(bytes)
    THEN [res |-> "panic", v |-> 0, at |-> at]
    ELSE [res |-> "ok", v |-> BigEndian(SubSeq(bytes, at + 1, at + num_bytes)),
          at |-> at + num_bytes]

XRefStreamEntry(entry_type, field2, field3) ==
    CASE entry_type = 0 ->
            [t |-> "Free", object_number_of_next_free_object |-> field2,
             generation_number_for_next_object_use |-> field3]
      [] entry_type = 1 ->
            [t |-> "Uncompressed", byte_offset |-> field2, generation_number |-> field3]
      [] entry_type = 2 ->
            [t |-> "Compressed", object_number_of_parent_stream |-> field2,
             index_in_stream |-> field3]

RECURSIVE XRefStreamLoop(_, _, _, _, _)

XRefStreamFields(bytes, w2, w3, entries, entry_type, f2) ==
    IF f2.res = "panic" THEN BPanic
    ELSE With(read_u64(bytes, f2.at, w3), LAMBDA f3 :
         IF f3.res = "panic" THEN BPanic
         ELSE XRefStreamLoop(bytes, f3.at, w2, w3,
                             Append(entries, XRefStreamEntry(entry_type, f2.v, f3.v))))

\* The loop of parse_xref_stream: one byte of type, which read_exact stops
\* the loop on at the end of the payload, then the two fields.
XRefStreamLoop(bytes, at, w2, w3, entries) ==
    IF at >= Len(bytes) THEN BOk(entries)
    ELSE IF bytes[at + 1] \notin {0, 1, 2} THEN BPanic
    ELSE XRefStreamFields(bytes, w2, w3, entries, bytes[at + 1],
                          read_u64(bytes, at + 1, w2))

\* parse_xref_stream: the first width must be 1; the other two are cast to u8.
parse_xref_stream(widths, bytes) ==
    IF Len(widths) < 3 \/ widths[1] # 1 THEN BPanic
    ELSE XRefStreamLoop(bytes, 0, widths[2] % 256, widths[3] % 256, <<>>)

\* PDFStream::decompress.  Inflating is flate2's work: `inflated` is what it
\* makes of the bytes, [res, bytes], a DataError being unwrapped.  The output
\* vector has capacity 3 * len and decompress_vec does not grow it.
decompress(bytes, inflated) ==
    IF inflated.res # "ok" THEN BPanic
    ELSE BOk(SubSeq(inflated.bytes, 1,
                    IF Len(inflated.bytes) < 3 * Len(bytes) THEN Len(inflated.bytes)
                    ELSE 3 * Len(bytes)))

get_object_at_offset(objects, offset) ==
    With({h \in DOMAIN objects : objects[h].offset = offset}, LAMBDA hits :
    IF hits = {} THEN None ELSE Some(objects[CHOOSE h \in hits : TRUE]))

get_object_by_reference(objects, reference) ==
    IF Header(reference) \in DOMAIN objects THEN Some(objects[Header(reference)]) ELSE None

\* The numbers of the W array, each cast to u64; other elements are skipped,
\* and a W that is no array leaves the vector empty.
RECURSIVE Widths(_)
Widths(items) ==
    IF items = <<>> THEN <<>>
    ELSE (IF Head(items).t = "Number" THEN <<as_u64(Head(items).num)>> ELSE <<>>)
         \o Widths(Tail(items))

width_vector(width) == IF width.t = "Array" THEN Widths(width.items) ELSE <<>>

XRefStreamRoot(doc, d, entries) ==
    IF entries.res # "ok" \/ KeyRoot \notin DOMAIN d THEN [res |-> "panic", val |-> NoVal, pdf |-> doc]
    ELSE IF d[KeyRoot].t # "ObjectReference"
            \/ ~get_object_by_reference(doc.objects, d[KeyRoot]).some
    THEN [res |-> "panic", val |-> NoVal, pdf |-> doc]
    ELSE [res |-> "ok", val |-> get_object_by_reference(doc.objects, d[KeyRoot]).v,
          pdf |-> [doc EXCEPT !.xref_table = Some([header |-> None, entries |-> entries.val])]]

\* The startxref branch: the object at that offset must be a stream whose
\* dictionary has a numeric Length, a W, a numeric Size and a Root reference.
XRefStreamObject(doc, object, inflated) ==
    IF ~object.some \/ object.v.value.t # "Stream"
    THEN [res |-> "panic", val |-> NoVal, pdf |-> doc]
    ELSE With(object.v.value.dictionary, LAMBDA d :
         IF \/ KeyLength \notin DOMAIN d \/ KeyW \notin DOMAIN d \/ KeySize \notin DOMAIN d
         THEN [res |-> "panic", val |-> NoVal, pdf |-> doc]
         ELSE IF d[KeyLength].t # "Number" \/ d[KeySize].t # "Number"
         THEN [res |-> "panic", val |-> NoVal, pdf |-> doc]
         ELSE With(decompress(object.v.value.bytes, inflated), LAMBDA z :
              XRefStreamRoot(doc, d,
                  IF z.res = "ok" THEN parse_xref_stream(width_vector(d[KeyW]), z.val)
                  ELSE BPanic)))

\* get_root_object: with a trailer, whatever its Root, the result is Err("").
get_root_object(doc, inflated) ==
    IF doc.trailer.some THEN [res |-> "err", val |-> NoVal, pdf |-> doc]
    ELSE IF doc.startxref.some
    THEN XRefStreamObject(doc, get_object_at_offset(doc.objects, doc.startxref.v), inflated)
    ELSE [res |-> "err", val |-> NoVal, pdf |-> doc]

PagesDict(pages_obj) ==
    IF ~pages_obj.some THEN BPanic
    ELSE IF pages_obj.v.value.t # "Dictionary" THEN BPanic
    ELSE BOk(pages_obj.v.value.dictionary)

\* get_pages_dict
get_pages_dict(objects, root) ==
    IF root.value.t # "Dictionary" THEN BPanic
    ELSE IF KeyPages \notin DOMAIN root.value.dictionary THEN BPanic
    ELSE IF root.value.dictionary[KeyPages].t # "ObjectReference" THEN BPanic
    ELSE PagesDict(get_object_by_reference(objects, root.value.dictionary[KeyPages]))

RECURSIVE KidsLoop(_, _, _)

Kid(objects, kids, pages, object) ==
    IF ~object.some THEN BPanic
    ELSE IF object.v.value.t # "Dictionary" THEN BPanic
    ELSE With(object.v.value.dictionary, LAMBDA page_dict :
         IF KeyContents \notin DOMAIN page_dict THEN BErr
         ELSE IF page_dict[KeyContents].t # "ObjectReference" THEN BErr
         ELSE With(get_object_by_reference(objects, page_dict[KeyContents]),
                   LAMBDA contents_obj :
              IF ~contents_obj.some THEN BPanic
              ELSE KidsLoop(objects, Tail(kids),
                            Append(pages, [object |-> object.v,
                                           contents |-> contents_obj.v]))))

\* The loop of read_pages over Kids: every kid is taken for a page.
KidsLoop(objects, kids, pages) ==
    IF kids = <<>> THEN BOk(pages)
    ELSE IF Head(kids).t # "ObjectReference" THEN BPanic
    ELSE Kid(objects, kids, pages, get_object_by_reference(objects, Head(kids)))

\* read_pages
read_pages(objects, pages_dict) ==
    IF KeyKids \notin DOMAIN pages_dict THEN BPanic
    ELSE IF pages_dict[KeyKids].t # "Array" THEN BPanic
    ELSE KidsLoop(objects, pages_dict[KeyKids].items, <<>>)

-----------------------------------------------------------------------------
(* The content-stream lexer (src/src/content_stream_lexer.rs).  A parser of *)
(* nom is an operator on the source s and an offset i (the next byte is     *)
(* s[i+1]) whose result is [ok, pos, v]: whether it matched, where it       *)
(* stopped and the value it produced.                                       *)

Matched(at, v) == [ok |-> TRUE, pos |-> at, v |-> v]
Unmatched == [ok |-> FALSE, pos |-> 0, v |-> NoVal]

\* character::complete::multispace0 / multispace1
Multispace == {SP, HT, CR, LF}
Alphanumeric == Digits \cup LowerAZ \cup UpperAZ

SkipWhile(s, i, cs) ==
    With(FindNot(s, i, cs), LAMBDA j : IF j = -1 THEN Len(s) ELSE j)

multispace0(s, i) == Matched(SkipWhile(s, i, Multispace), NoVal)
multispace1(s, i) ==
    IF SkipWhile(s, i, Multispace) > i THEN multispace0(s, i) ELSE Unmatched

\* bytes::complete::tag and character::complete::char
tag(s, i, t) ==
    IF i + Len(t) <= Len(s) /\ SubSeq(s, i + 1, i + Len(t)) = t
    THEN Matched(i + Len(t), t) ELSE Unmatched

\* alphanumeric1, digit1
Run1(s, i, cs) ==
    With(SkipWhile(s, i, cs), LAMBDA j :
    IF j > i THEN Matched(j, SubSeq(s, i + 1, j)) ELSE Unmatched)

\* number::complete::double on decimal literals: sign? digits* ('.' digits*)?
\* with at least one digit.  The exponent and inf/nan, which nom also reads,
\* need a letter next to the number and do not occur in the streams of the
\* model.
DoubleEnd(s, i) ==
    With(IF i < Len(s) /\ s[i + 1] \in {"+", "-"} THEN i + 1 ELSE i, LAMBDA a :
    With(SkipWhile(s, a, Digits), LAMBDA b :
    IF b < Len(s) /\ s[b + 1] = "." THEN SkipWhile(s, b + 1, Digits) ELSE b))

double(s, i) ==
    With(DoubleEnd(s, i), LAMBDA e :
    With(parse_f64(SubSeq(s, i + 1, e)), LAMBDA f :
    IF f.ok THEN Matched(e, f.v) ELSE Unmatched))

\* sequence::{preceded, delimited, separated_pair}: p, then q where p stopped.
Then(p, q(_)) == IF p.ok THEN q(p.pos) ELSE Unmatched

\* parse_tag: multispace0, '/', alphanumeric1, multispace1; the value is the
\* name.
parse_tag(s, i) ==
    Then(multispace0(s, i), LAMBDA a :
    Then(tag(s, a, <<"/">>), LAMBDA b :
    With(Run1(s, b, Alphanumeric), LAMBDA name :
    Then(name, LAMBDA c :
    Then(multispace1(s, c), LAMBDA d : Matched(d, name.v))))))

\* bytes::complete::escaped(none_of("\\)("), '\\', alt((tag(")"), tag("(")))):
\* the end of the run of plain characters and escaped parentheses from i, or
\* -1 when the run is empty or a backslash is followed by anything else.
RECURSIVE EscapedLoop(_, _, _)
EscapedLoop(s, start, i) ==
    IF i >= Len(s) THEN i
    ELSE IF s[i + 1] \notin {BSL, ")", "("} THEN EscapedLoop(s, start, i + 1)
    ELSE IF s[i + 1] = BSL
    THEN (IF i + 1 < Len(s) /\ s[i + 2] \in {")", "("}
          THEN EscapedLoop(s, start, i + 2) ELSE -1)
    ELSE IF i = start THEN -1 ELSE i

\* parse_string: '(' , the escaped run or nothing, ')'.  The value keeps the
\* backslashes.
parse_string(s, i) ==
    Then(tag(s, i, <<"(">>), LAMBDA a :
    With(EscapedLoop(s, a, a), LAMBDA e :
    With(IF e = -1 THEN a ELSE e, LAMBDA b :
    Then(tag(s, b, <<")">>), LAMBDA c : Matched(c, SubSeq(s, a + 1, b))))))

\* One `/Name 123` of parse_dictionary, between multispace0s.
DictionaryPair(s, i) ==
    Then(multispace0(s, i), LAMBDA a :
    Then(parse_tag(s, a), LAMBDA b :
    Then(multispace0(s, b), LAMBDA c :
    Then(Run1(s, c, Digits), LAMBDA d : multispace0(s, d)))))

RECURSIVE DictionaryPairs(_, _)
DictionaryPairs(s, i) ==
    With(DictionaryPair(s, i), LAMBDA p :
    IF p.ok /\ p.pos > i THEN DictionaryPairs(s, p.pos) ELSE i)

\* parse_dictionary of the lexer: `<<`, one or more pairs, `>>`.
lexer_parse_dictionary(s, i) ==
    Then(tag(s, i, <<"<", "<">>), LAMBDA a :
    Then(DictionaryPair(s, a), LAMBDA b :
    tag(s, DictionaryPairs(s, b), <<">", ">">>)))

Token(t) == [t |-> t]

\* delimited(multispace0, tag(kw), multispace1)
SpacedKeyword(s, i, kw, token) ==
    Then(multispace0(s, i), LAMBDA a :
    Then(tag(s, a, kw), LAMBDA b :
    Then(multispace1(s, b), LAMBDA c : Matched(c, token))))

\* separated_pair(double, multispace1, char(op))
NumberOperator(s, i, op, t) ==
    With(double(s, i), LAMBDA x :
    Then(x, LAMBDA a :
    Then(multispace1(s, a), LAMBDA b :
    Then(tag(s, b, <<op>>), LAMBDA c : Matched(c, [t |-> t, num |-> x.v])))))

\* separated_pair(separated_pair(double, multispace1, double), multispace1,
\* char(op))
PointOperator(s, i, op, t) ==
    With(double(s, i), LAMBDA x :
    Then(x, LAMBDA a :
    Then(multispace1(s, a), LAMBDA b :
    With(double(s, b), LAMBDA y :
    Then(y, LAMBDA c :
    Then(multispace1(s, c), LAMBDA d :
    Then(tag(s, d, <<op>>), LAMBDA e : Matched(e, [t |-> t, x |-> x.v, y |-> y.v]))))))))

\* count(delimited(multispace0, double, multispace0), left)
RECURSIVE Doubles(_, _, _, _)
Doubles(s, i, left, acc) ==
    IF left = 0 THEN Matched(i, acc)
    ELSE Then(multispace0(s, i), LAMBDA a :
         With(double(s, a), LAMBDA x :
         Then(x, LAMBDA b :
         Then(multispace0(s, b), LAMBDA c : Doubles(s, c, left - 1, Append(acc, x.v))))))

\* pair(count(..., 6), tag(kw))
MatrixOperator(s, i, kw, t) ==
    With(Doubles(s, i, 6, <<>>), LAMBDA m :
    Then(m, LAMBDA a :
    Then(tag(s, a, kw), LAMBDA b : Matched(b, [t |-> t, matrix |-> m.v]))))

\* separated_pair(parse_tag, multispace0, tag(kw))
NameOperator(s, i, kw, t) ==
    With(parse_tag(s, i), LAMBDA name :
    Then(name, LAMBDA a :
    Then(multispace0(s, a), LAMBDA b :
    Then(tag(s, b, kw), LAMBDA c : Matched(c, [t |-> t, name |-> name.v])))))

parse_cm(s, i) == MatrixOperator(s, i, <<"c", "m">>, "Cm")
parse_bmc(s, i) == NameOperator(s, i, <<"B", "M", "C">>, "BeginMarkedContent")
parse_end_marked_content(s, i) ==
    SpacedKeyword(s, i, <<"E", "M", "C">>, Token("EndMarkedContent"))
parse_g(s, i) == NumberOperator(s, i, "G", "StrokingColorSpaceGrey")
parse_line_width(s, i) == NumberOperator(s, i, "w", "LineWidth")
parse_move(s, i) == PointOperator(s, i, "m", "Move")
parse_line(s, i) == PointOperator(s, i, "l", "Line")
parse_stroke_path(s, i) == SpacedKeyword(s, i, <<"S">>, Token("StrokePath"))

parse_bdc(s, i) ==
    Then(parse_tag(s, i), LAMBDA a :
    Then(multispace0(s, a), LAMBDA b :
    Then(lexer_parse_dictionary(s, b), LAMBDA c :
    Then(multispace0(s, c), LAMBDA d :
    Then(tag(s, d, <<"B", "D", "C">>), LAMBDA e :
    Matched(e, Token("BeginMarkedContentWithProperties")))))))

parse_color_space_grey(s, i) == NumberOperator(s, i, "g", "ColorSpaceGrey")
parse_begin_text_object(s, i) ==
    Then(tag(s, i, <<"B", "T">>), LAMBDA a : Matched(a, Token("BeginTextObject")))
parse_end_text_object(s, i) ==
    Then(tag(s, i, <<"E", "T">>), LAMBDA a : Matched(a, Token("EndTextObject")))
parse_set_text_matrix(s, i) == MatrixOperator(s, i, <<"T", "m">>, "SetTextMatrix")

\* parse_set_text_font: parse_tag, delimited(multispace0, double, multispace1),
\* tag("Tf")
parse_set_text_font(s, i) ==
    With(parse_tag(s, i), LAMBDA font :
    Then(font, LAMBDA a :
    Then(multispace0(s, a), LAMBDA b :
    With(double(s, b), LAMBDA font_size :
    Then(font_size, LAMBDA c :
    Then(multispace1(s, c), LAMBDA d :
    Then(tag(s, d, <<"T", "f">>), LAMBDA e :
    Matched(e, [t |-> "TextFont", font |-> font.v, size |-> font_size.v]))))))))

\* parse_show_text_string: separated_pair(parse_string, multispace0, tag("Tj"))
parse_show_text_string(s, i) ==
    With(parse_string(s, i), LAMBDA text :
    Then(text, LAMBDA a :
    Then(multispace0(s, a), LAMBDA b :
    Then(tag(s, b, <<"T", "j">>), LAMBDA c :
    Matched(c, [t |-> "ShowTextString", text |-> text.v])))))

parse_flatness_tolerance(s, i) == NumberOperator(s, i, "i", "SetFlatnessTolerance")
parse_end_path(s, i) == SpacedKeyword(s, i, <<"n">>, Token("EndPath"))
parse_fill_path_even_odd(s, i) == SpacedKeyword(s, i, <<"f", "*">>, Token("FillPathEvenOdd"))
parse_save_graphics_state(s, i) == SpacedKeyword(s, i, <<"q">>, Token("SaveGraphicsState"))
parse_restore_graphics_state(s, i) ==
    SpacedKeyword(s, i, <<"Q">>, Token("RestoreGraphicsState"))
parse_paint_x_object(s, i) == NameOperator(s, i, <<"D", "o">>, "PaintXObject")

\* The alternatives of `alt` in parse, in its order.
Alternatives(s, i) ==
    <<parse_cm(s, i), parse_bmc(s, i), parse_end_marked_content(s, i), parse_g(s, i),
      parse_line_width(s, i), parse_move(s, i), parse_line(s, i),
      parse_stroke_path(s, i), parse_bdc(s, i), parse_color_space_grey(s, i),
      parse_begin_text_object(s, i), parse_end_text_object(s, i),
      parse_set_text_matrix(s, i), parse_set_text_font(s, i),
      parse_show_text_string(s, i), parse_flatness_tolerance(s, i), parse_end_path(s, i),
      parse_fill_path_even_odd(s, i), parse_save_graphics_state(s, i),
      parse_restore_graphics_state(s, i), parse_paint_x_object(s, i)>>

\* branch::alt: the first alternative that matches.
alt(rs) ==
    With({k \in DOMAIN rs : rs[k].ok}, LAMBDA hits :
    IF hits = {} THEN Unmatched ELSE rs[CHOOSE k \in hits : \A j \in hits : k <= j])

\* multi::many0(delimited(multispace0, alt(...), multispace0)): it stops, with
\* what it has, at the first place where no alternative matches.
RECURSIVE many0(_, _, _)
many0(s, i, acc) ==
    With(alt(Alternatives(s, multispace0(s, i).pos)), LAMBDA r :
    IF ~r.ok THEN [res |-> "ok", tokens |-> acc, rest |-> i]
    ELSE IF multispace0(s, r.pos).pos = i THEN [res |-> "panic", tokens |-> acc, rest |-> i]
    ELSE many0(s, multispace0(s, r.pos).pos, Append(acc, r.v)))

\* content_stream_lexer::parse: the tokens of many0; the rest of the input,
\* which many0 also returns, is dropped.
ContentParse(source) == many0(source, 0, <<>>)

-----------------------------------------------------------------------------
(* The text extractor (src/src/text.rs) and PDFPage::get_text               *)

EmptyTextObject == [positioned_text |-> <<>>]

PositionedText(text, matrix) == [text |-> text, x |-> matrix[5], y |-> matrix[6]]

\* A BeginTextObject that keeps the runs of the text object before it.
BeginTextKept(current_text_object) == current_text_object

\* BeginTextObject outside a text object: a fresh current_text_object.
BeginText(current_text_object) == EmptyTextObject

\* An EndTextObject that pushes nothing.
EndTextUnclosed(text_objects, current_text_object) == text_objects

\* EndTextObject: the current text object is pushed.
EndText(text_objects, current_text_object) == Append(text_objects, current_text_object)

\* ShowTextString inside a text object: the run is pushed.
ShowText(current_text_object, text, matrix) ==
    [positioned_text |-> Append(current_text_object.positioned_text,
                                PositionedText(text, matrix))]

RECURSIVE TextLoop(_, _, _, _, _, _)

\* The arms taken while in_text_object, a BeginTextObject opening a fresh text
\* object in place of the one that is open.
InTextObjectReopened(tokens, k, text_matrix, text_objects, current_text_object, token) ==
    CASE token.t = "BeginTextObject" ->
            TextLoop(tokens, k + 1, TRUE, text_matrix, text_objects,
                     BeginText(current_text_object))
      [] token.t = "EndTextObject" ->
            TextLoop(tokens, k + 1, FALSE, text_matrix,
                     EndText(text_objects, current_text_object), current_text_object)
      [] token.t = "SetTextMatrix" ->
            TextLoop(tokens, k + 1, TRUE, Some(token.matrix), text_objects,
                     current_text_object)
      [] token.t = "TextFont" ->
            TextLoop(tokens, k + 1, TRUE, text_matrix, text_objects, current_text_object)
      [] token.t = "ShowTextString" ->
            IF ~text_matrix.some THEN BPanic
            ELSE IF Len(text_matrix.v) # 6 THEN BPanic
            ELSE TextLoop(tokens, k + 1, TRUE, text_matrix, text_objects,
                          ShowText(current_text_object, token.text, text_matrix.v))
      [] OTHER -> BPanic

\* The arms taken while in_text_object.
InTextObject(tokens, k, text_matrix, text_objects, current_text_object, token) ==
    CASE token.t = "BeginTextObject" -> BPanic
      [] token.t = "EndTextObject" ->
            TextLoop(tokens, k + 1, FALSE, text_matrix,
                     EndText(text_objects, current_text_object), current_text_object)
      [] token.t = "SetTextMatrix" ->
            TextLoop(tokens, k + 1, TRUE, Some(token.matrix), text_objects,
                     current_text_object)
      [] token.t = "TextFont" ->
            TextLoop(tokens, k + 1, TRUE, text_matrix, text_objects, current_text_object)
      [] token.t = "ShowTextString" ->
            IF ~text_matrix.some THEN BPanic
            ELSE IF Len(text_matrix.v) # 6 THEN BPanic
            ELSE TextLoop(tokens, k + 1, TRUE, text_matrix, text_objects,
                          ShowText(current_text_object, token.text, text_matrix.v))
      [] OTHER -> BPanic

\* The arms taken outside a text object, a SetTextMatrix there being kept.
OutsideTextObjectTracking(tokens, k, text_matrix, text_objects, current_text_object, token) ==
    IF token.t = "BeginTextObject"
    THEN TextLoop(tokens, k + 1, TRUE, text_matrix, text_objects,
                  BeginText(current_text_object))
    ELSE IF token.t = "SetTextMatrix"
    THEN TextLoop(tokens, k + 1, FALSE, Some(token.matrix), text_objects,
                  current_text_object)
    ELSE TextLoop(tokens, k + 1, FALSE, text_matrix, text_objects, current_text_object)

\* The arms taken outside a text object: all but BeginTextObject only print.
OutsideTextObject(tokens, k, text_matrix, text_objects, current_text_object, token) ==
    IF token.t = "BeginTextObject"
    THEN TextLoop(tokens, k + 1, TRUE, text_matrix, text_objects,
                  BeginText(current_text_object))
    ELSE TextLoop(tokens, k + 1, FALSE, text_matrix, text_objects, current_text_object)

\* The loop of get_text_objects, at the k-th token.
TextLoop(tokens, k, in_text_object, text_matrix, text_objects, current_text_object) ==
    IF k > Len(tokens) THEN BOk(text_objects)
    ELSE IF in_text_object
    THEN InTextObject(tokens, k, text_matrix, text_objects, current_text_object, tokens[k])
    ELSE OutsideTextObject(tokens, k, text_matrix, text_objects, current_text_object,
                           tokens[k])

\* get_text_objects
get_text_objects(tokens) == TextLoop(tokens, 1, FALSE, None, <<>>, EmptyTextObject)

\* PDFPage::get_text: the contents must be a stream; its bytes are inflated,
\* lexed and searched for text, and then the function ends in panic!().  The
\* result keeps what was computed on the way: [res, tokens, text].
TextOfPage(z) ==
    IF z.res # "ok" THEN [res |-> "panic", tokens |-> <<>>, text |-> BPanic]
    ELSE With(ContentParse(z.val), LAMBDA lexed :
         [res |-> "panic", tokens |-> lexed.tokens,
          text |-> IF lexed.res = "ok" THEN get_text_objects(lexed.tokens) ELSE BPanic])

get_text(page, inflated) ==
    IF page.contents.value.t # "Stream"
    THEN [res |-> "panic", tokens |-> <<>>, text |-> BPanic]
    ELSE TextOfPage(decompress(page.contents.value.bytes, inflated))

\* build_tree: the root, the Pages dictionary and the pages are unwrapped;
\* then get_text is called on the pages in order, and the first call ends
\* the process.  The result is [res, pdf, root, pages_dict, pages, page_text]:
\* what the three steps returned (res "none" for a step not reached) and what
\* the call of get_text on the first page computed.
NotReached == [res |-> "none", val |-> NoVal]
NoText == [res |-> "none", tokens |-> <<>>, text |-> NotReached]

Built(res, doc, root, pages_dict, pages, page_text) ==
    [res |-> res, pdf |-> doc, root |-> [res |-> root.res, val |-> root.val],
     pages_dict |-> pages_dict, pages |-> pages, page_text |-> page_text]

BuildPages(root, pages_dict, pages, inflated_page) ==
    IF pages.res # "ok" THEN Built("panic", root.pdf, root, pages_dict, pages, NoText)
    ELSE IF pages.val = <<>>
    THEN Built("ok", [root.pdf EXCEPT !.pages = pages.val], root, pages_dict, pages, NoText)
    ELSE Built("panic", [root.pdf EXCEPT !.pages = pages.val], root, pages_dict, pages,
               get_text(pages.val[1], inflated_page))

BuildPagesDict(root, pages_dict, inflated_page) ==
    IF pages_dict.res # "ok"
    THEN Built("panic", root.pdf, root, pages_dict, NotReached, NoText)
    ELSE BuildPages(root, pages_dict, read_pages(root.pdf.objects, pages_dict.val),
                    inflated_page)

BuildRoot(root, inflated_page) ==
    IF root.res # "ok" THEN Built("panic", root.pdf, root, NotReached, NotReached, NoText)
    ELSE BuildPagesDict(root, get_pages_dict(root.pdf.objects, root.val), inflated_page)

build_tree(doc, inflated_xref, inflated_page) ==
    BuildRoot(get_root_object(doc, inflated_xref), inflated_page)

-----------------------------------------------------------------------------
(* The state machine *)

NoPeek == [some |-> FALSE]

\* `last` before any call.
NoCall ==
    [op |-> "none", arg |-> 0, res |-> "ok", toks |-> <<>>, pre_pos |-> 0,
     pre_stack |-> <<>>, peeked |-> NoPeek, calls |-> <<>>]

\* What the peak_next that came immediately before this call returned.
Peeked ==
    IF last.op = "peak_next"
    THEN [some |-> TRUE, res |-> last.res, toks |-> last.toks,
          pre_pos |-> last.pre_pos, pre_stack |-> last.pre_stack]
    ELSE NoPeek

TokensOf(r) == IF r.res = "ok" THEN <<r.tok>> ELSE <<>>

\* Tokenizer::new and Reader::new on the file b.
New(b) ==
    /\ buf = b
    /\ pos = 0
    /\ state_stack = <<"Start">>
    /\ aborted = FALSE
    /\ last = NoCall
    /\ pdf = EmptyPdf
    /\ phase = "parse"

\* A call of the tokenizer returned r (or panicked).
Returned(op, arg, r, toks) ==
    /\ pos' = r.pos
    /\ state_stack' = r.stack
    /\ aborted' = (r.res = "panic")
    /\ last' = [op |-> op, arg |-> arg, res |-> r.res, toks |-> toks, pre_pos |-> pos,
                pre_stack |-> state_stack, peeked |-> Peeked, calls |-> <<>>]
    /\ UNCHANGED <<buf, debug_enabled, pdf, phase, want>>

\* tokenizer.next()
NextReturned(r) == Returned("next", 0, r, TokensOf(r))

NextAct ==
    /\ ~aborted
    /\ NextReturned(next(buf, pos, state_stack))

\* tokenizer.peak_next()
PeakNextReturned(r) == Returned("peak_next", 0, r, TokensOf(r))

PeakNextAct ==
    /\ ~aborted
    /\ PeakNextReturned(peak_next(buf, pos, state_stack))

\* tokenizer.peak_multiple(num_tokens)
PeakMultipleReturned(num_tokens, r) == Returned("peak_multiple", num_tokens, r, r.toks)

PeakMultipleAct(num_tokens) ==
    /\ ~aborted
    /\ PeakMultipleReturned(num_tokens, peak_multiple(buf, pos, state_stack, num_tokens))

\* tokenizer.get_stream(num_bytes)
GetStreamReturned(num_bytes, g) ==
    Returned("get_stream", num_bytes, g,
             IF g.res = "ok" THEN <<[t |-> "Bytes", bytes |-> g.bytes]>> ELSE <<>>)

GetStreamAct(num_bytes) ==
    /\ ~aborted
    /\ GetStreamReturned(num_bytes, get_stream(buf, pos, state_stack, num_bytes))

\* tokenizer.get_xref_table(num_entries)
GetXRefTableReturned(num_entries, e) ==
    Returned("get_xref_table", num_entries, e, IF e.res = "ok" THEN e.val ELSE <<>>)

GetXRefTableAct(num_entries) ==
    /\ ~aborted
    /\ GetXRefTableReturned(num_entries,
                            get_xref_table(buf, pos, state_stack, num_entries, <<>>))

\* One iteration of the loop of Reader::parse returned r (or panicked).
ParseReturned(r) ==
    /\ pos' = r.pos
    /\ state_stack' = r.stack
    /\ aborted' = (r.res = "panic")
    /\ pdf' = r.pdf
    /\ phase' = IF r.done THEN "build" ELSE "parse"
    /\ last' = [op |-> "parse", arg |-> 0, res |-> r.res, toks |-> <<>>,
                pre_pos |-> pos, pre_stack |-> state_stack, peeked |-> NoPeek,
                calls |-> r.calls]
    /\ UNCHANGED <<buf, debug_enabled, want>>

ParseStep ==
    /\ ~aborted
    /\ phase = "parse"
    /\ ParseReturned(parse_step(buf, pos, state_stack, debug_enabled, pdf))

\* The process is in build_tree, which returned r (or panicked).
BuildTreeReturned(r) ==
    /\ pdf' = r.pdf
    /\ aborted' = (r.res = "panic")
    /\ phase' = "done"
    /\ last' = [op |-> "build_tree", res |-> r.res, root |-> r.root,
                pages_dict |-> r.pages_dict, pages |-> r.pages,
                page_text |-> r.page_text]
    /\ UNCHANGED <<buf, pos, state_stack, debug_enabled, want>>

\* Reader::read after parse: build_tree, with what flate2 makes of the xref
\* stream and of the first page's contents.
BuildTreeAct(inflated_xref, inflated_page) ==
    /\ ~aborted
    /\ phase = "build"
    /\ BuildTreeReturned(build_tree(pdf, inflated_xref, inflated_page))

\* content_stream_lexer::parse on the bytes in buf.
LexReturned(r) ==
    /\ aborted' = (r.res = "panic")
    /\ phase' = "text"
    /\ last' = [op |-> "parse", res |-> r.res, tokens |-> r.tokens, rest |-> r.rest]
    /\ UNCHANGED <<buf, pos, state_stack, debug_enabled, pdf, want>>

LexAct ==
    /\ ~aborted
    /\ phase = "lex"
    /\ LexReturned(ContentParse(buf))

\* text::get_text_objects on the tokens that parse returned.
TextReturned(r) ==
    /\ aborted' = (r.res = "panic")
    /\ phase' = "done"
    /\ last' = [op |-> "get_text_objects", res |-> r.res, tokens |-> last.tokens,
                rest |-> last.rest, text_objects |-> r.val]
    /\ UNCHANGED <<buf, pos, state_stack, debug_enabled, pdf, want>>

TextAct ==
    /\ ~aborted
    /\ phase = "text"
    /\ TextReturned(get_text_objects(last.tokens))

\* Reader::parse_xref_stream(widths, bytes) on the payload in buf.
XRefStreamReturned(widths, r) ==
    /\ aborted' = (r.res = "panic")
    /\ phase' = "done"
    /\ last' = [op |-> "parse_xref_stream", widths |-> widths, res |-> r.res,
                entries |-> r.val]
    /\ UNCHANGED <<buf, pos, state_stack, debug_enabled, pdf, want>>

XRefStreamAct(widths) ==
    /\ ~aborted
    /\ phase = "xref_stream"
    /\ XRefStreamReturned(widths, parse_xref_stream(widths, buf))

-----------------------------------------------------------------------------
(* Files for the tokenizer.  Every file starts with an object header, so    *)
(* that the tokenizer reaches the states of an object's value from Start by *)
(* its own calls.                                                           *)

RECURSIVE Flatten(_)
Flatten(ss) == IF ss = <<>> THEN <<>> ELSE Head(ss) \o Flatten(Tail(ss))

SeqsUpTo(S, n) == UNION {[1..k -> S] : k \in 0..n}

ObjHeader == <<"1", SP, "0", SP, "o", "b", "j", SP>>
InArray == ObjHeader \o <<"[">>
InDictionaryValue == ObjHeader \o <<"<", "<", "/", "K", SP>>

\* An array or a dictionary value opened, then up to MaxFrags pieces: two
\* integers, the R of a reference (a byte no state expects when it follows
\* no two integers), a signed real, and the brackets of an array.
MaxFrags == 3
MaxPeek == 3
Fragments ==
    {<<"3", SP>>, <<"0", SP>>, <<"R">>, <<"[">>, <<"]">>, <<"-", "1", ".", "5", SP>>}
TokenizerFiles ==
    {p \o Flatten(fs) : p \in {InArray, InDictionaryValue}, fs \in SeqsUpTo(Fragments, MaxFrags)}

Init ==
    /\ \E b \in TokenizerFiles : New(b)
    /\ debug_enabled = TRUE
    /\ want = NoVal

Next ==
    \/ NextAct
    \/ PeakNextAct
    \/ \E k \in 0..MaxPeek : PeakMultipleAct(k)

Spec == Init /\ [][Next]_vars

-----------------------------------------------------------------------------
(* Hex strings: `<h>` as an array element and as a dictionary value, h a    *)
(* sequence of 1..MaxHexLen hex digits, which `want` remembers.             *)

MaxHexLen == 5
HexAlphabet == {"4", "A", "B"}
HexStrings == SeqsUpTo(HexAlphabet, MaxHexLen) \ {<<>>}

HexFile(prefix, h) == prefix \o <<"<">> \o h \o <<">">>

InitHex ==
    /\ \E prefix \in {InArray, InDictionaryValue}, h \in HexStrings :
          /\ New(HexFile(prefix, h))
          /\ want = [t |-> "HexString", digits |-> h]
    /\ debug_enabled = TRUE

NextHex == NextAct \/ PeakNextAct

SpecHex == InitHex /\ [][NextHex]_vars

-----------------------------------------------------------------------------
(* Literal strings: a byte string of up to MaxLitLen bytes with no          *)
(* unmatched parenthesis, written as a literal string where an object's     *)
(* value, an array element and a dictionary value are read.                 *)

MaxLitLen == 3
\* a printable byte, the parentheses, the backslash, a control byte with an
\* escape of its own and one that only an octal code can name
LitAlphabet == {"a", "(", ")", BSL, LF, Chr(1)}

\* No prefix closes a parenthesis that is not open, and none is left open.
RECURSIVE Depth(_)
Depth(s) ==
    IF s = <<>> THEN 0
    ELSE Depth(SubSeq(s, 1, Len(s) - 1))
         + (IF s[Len(s)] = "(" THEN 1 ELSE IF s[Len(s)] = ")" THEN 0 - 1 ELSE 0)

Balanced(s) == Depth(s) = 0 /\ \A i \in 1..Len(s) : Depth(SubSeq(s, 1, i)) >= 0

LitStrings == {s \in SeqsUpTo(LitAlphabet, MaxLitLen) : Balanced(s)}

\* The escape of one byte: balanced parentheses may stay as they are
\* (escape_parens = FALSE) or be written \( and \).
EncodeByte(c, escape_parens) ==
    CASE c = BSL -> <<BSL, BSL>>
      [] c = LF -> <<BSL, "n">>
      [] c = Chr(1) -> <<BSL, "0", "0", "1">>
      [] c \in {"(", ")"} -> IF escape_parens THEN <<BSL, c>> ELSE <<c>>
      [] OTHER -> <<c>>

Encode(s, escape_parens) ==
    <<"(">> \o Flatten([i \in 1..Len(s) |-> EncodeByte(s[i], escape_parens)]) \o <<")">>

InitLit ==
    /\ \E prefix \in {ObjHeader, InArray, InDictionaryValue}, s \in LitStrings,
          escape_parens \in BOOLEAN :
          /\ New(prefix \o Encode(s, escape_parens))
          /\ want = [t |-> "String", str |-> s]
    /\ debug_enabled = TRUE

NextLit == NextAct \/ PeakNextAct

SpecLit == InitLit /\ [][NextLit]_vars

-----------------------------------------------------------------------------
(* Documents for the reader: `%PDF-1.4`, one indirect object and `%%EOF`.   *)
(* A written value is [text, val]: the bytes and the PDFValue they were     *)
(* written from, which `want` remembers.                                    *)

MaxDepth == 2
MaxStreamLen == 2

Written(text, val) == [text |-> text, val |-> val]

Atoms ==
    {Written(<<"1">>, VNumber(Int64(1))),
     Written(<<"3", SP, "0", SP, "R">>, VObjectReference(3, 0))}

BaseArrays ==
    {Written(<<"[", "3", SP, "0", "]">>, VArray(<<VNumber(Int64(3)), VNumber(Int64(0))>>)),
     Written(<<"[", "3", SP, "0", SP, "R", "]">>, VArray(<<VObjectReference(3, 0)>>))}

\* `[x]`
Wrap(x) == Written(<<"[">> \o x.text \o <<"]">>, VArray(<<x.val>>))

\* `<< /k1 v >>` and `<< /k1 v /k2 2 >>`
DictOf(k1, v, k2, second) ==
    Written(<<"<", "<", SP, "/">> \o k1 \o <<SP>> \o v.text
              \o (IF second THEN <<SP, "/">> \o k2 \o <<SP, "2">> ELSE <<>>)
              \o <<SP, ">", ">">>,
            VDictionary(IF second
                        THEN insert(insert(EmptyDictionary, k1, v.val), k2, VNumber(Int64(2)))
                        ELSE insert(EmptyDictionary, k1, v.val)))

\* The keys of a dictionary `level` dictionaries below the outermost one.
FirstKey(level) == IF level % 2 = 0 THEN <<"A">> ELSE <<"B">>
SecondKey(level) == IF level % 2 = 0 THEN <<"C">> ELSE <<"D">>

\* Dictionaries that nest up to d deep, the outermost at `level`.
RECURSIVE Dicts(_, _)
Dicts(d, level) ==
    IF d = 0 THEN {}
    ELSE With(Dicts(d - 1, level + 1), LAMBDA inner :
         {DictOf(FirstKey(level), v, SecondKey(level), second) :
             v \in Atoms \cup BaseArrays \cup inner \cup {Wrap(x) : x \in inner},
             second \in BOOLEAN})

ObjectValues ==
    With(Dicts(MaxDepth, 0), LAMBDA dicts :
    dicts \cup {Wrap(x) : x \in dicts} \cup BaseArrays
          \cup {DictOf(<<"K">>, v, <<"C">>, FALSE) : v \in Atoms})

\* A stream object: the Length as written, 0..MaxStreamLen payload bytes, and
\* the keyword `endstream` on a line of its own or missing.
StreamLengths ==
    {Written(<<"0">>, Int64(0)), Written(<<"1">>, Int64(1)), Written(<<"2">>, Int64(2)),
     Written(<<"-", "1">>, Int64(0 - 1)), Written(<<"1", ".", "5">>, Normal(15, 1))}

Payload(n) == [i \in 1..n |-> "a"]

StreamOf(length, n, closed) ==
    Written(<<"<", "<", SP, "/">> \o KeyLength \o <<SP>> \o length.text \o <<SP, ">", ">", LF>>
              \o KwStream \o <<LF>> \o Payload(n)
              \o (IF closed THEN <<LF>> \o KwEndstream ELSE <<>>),
            VStream(insert(EmptyDictionary, KeyLength, VNumber(length.val)), Payload(n)))

StreamValues ==
    {StreamOf(length, n, closed) :
        length \in StreamLengths, n \in 0..MaxStreamLen, closed \in BOOLEAN}

DocOf(v) ==
    <<"%", "P", "D", "F", "-", "1", ".", "4", LF>> \o ObjHeader \o v.text
      \o <<SP>> \o KwEndobj \o <<LF, "%">> \o KwEOF

InitParse ==
    /\ \E v \in ObjectValues \cup StreamValues :
          /\ New(DocOf(v))
          /\ want = v.val
    /\ debug_enabled \in BOOLEAN

NextParse == ParseStep

SpecParse == InitParse /\ [][NextParse]_vars

-----------------------------------------------------------------------------
(* Content streams for the lexer and the text extractor: every sequence of  *)
(* up to MaxOps operators, and every sequence of up to MaxRegions whole     *)
(* text objects, alone or after one operator.  `want` remembers what the    *)
(* stream was written from.                                                 *)

MaxOps == 4
MaxRegions == 2

TextMatrix(x, y) == <<"1", SP, "0", SP, "0", SP, "1", SP>> \o x \o <<SP>> \o y \o <<SP, "T", "m">>
ShowString(text) == <<"(">> \o text \o <<")", "T", "j">>
SetFont == <<"/", "F", "1", SP, "1", "2", SP, "T", "f">>

\* An operator as written, with the ContentToken it stands for; `X` is no
\* operator of the lexer.
ContentOps ==
    {Written(<<"B", "T">>, "BeginTextObject"), Written(<<"E", "T">>, "EndTextObject"),
     Written(TextMatrix(<<"1", "0">>, <<"2", "0">>), "SetTextMatrix"),
     Written(ShowString(<<"A">>), "ShowTextString"), Written(SetFont, "TextFont"),
     Written(<<"q">>, "SaveGraphicsState"), Written(<<"X">>, "Unknown")}

\* The operators of a stream, each followed by a space.
RECURSIVE Spaced(_)
Spaced(ops) == IF ops = <<>> THEN <<>> ELSE Head(ops).text \o <<SP>> \o Spaced(Tail(ops))

\* A text object `BT /F1 12 Tf 1 0 0 1 x y Tm (text)Tj ET`, or one without the
\* Tm, with the run it shows.
Region(text, x, y, xv, yv) ==
    Written(<<"B", "T", SP>> \o SetFont \o <<SP>> \o TextMatrix(x, y) \o <<SP>>
              \o ShowString(text) \o <<SP, "E", "T">>,
            [matrix |-> TRUE, text |-> text, x |-> Int64(xv), y |-> Int64(yv)])

RegionWithoutMatrix(text) ==
    Written(<<"B", "T", SP>> \o ShowString(text) \o <<SP, "E", "T">>,
            [matrix |-> FALSE, text |-> text, x |-> Int64(0), y |-> Int64(0)])

Hello == <<"H", "e", "l", "l", "o">>

\* BT /F1 12 Tf 1 0 0 1 72 720 Tm (Hello)Tj ET
MinimalContent == Region(Hello, <<"7", "2">>, <<"7", "2", "0">>, 72, 720)

Regions ==
    {Region(<<"A">>, <<"1", "0">>, <<"2", "0">>, 10, 20),
     Region(<<"B">>, <<"3", "0">>, <<"4", "0">>, 30, 40),
     MinimalContent,
     RegionWithoutMatrix(<<"B">>)}

\* The regions of a stream, a space between two.
RECURSIVE Joined(_)
Joined(rs) ==
    IF rs = <<>> THEN <<>>
    ELSE IF Len(rs) = 1 THEN Head(rs).text
    ELSE Head(rs).text \o <<SP>> \o Joined(Tail(rs))

Vals(ws) == [k \in DOMAIN ws |-> ws[k].val]

MaxRuns == 4

\* What one text object may hold: two text matrices, two strings, a font.
RunOps ==
    {Written(TextMatrix(<<"1", "0">>, <<"2", "0">>), "SetTextMatrix"),
     Written(TextMatrix(<<"3", "0">>, <<"4", "0">>), "SetTextMatrix"),
     Written(ShowString(<<"A">>), "ShowTextString"),
     Written(ShowString(<<"B">>), "ShowTextString"),
     Written(SetFont, "TextFont")}

\* A text matrix written outside every text object.
OuterOps == {Written(TextMatrix(<<"5", "0">>, <<"6", "0">>), "SetTextMatrix")}

InitText ==
    /\ \/ \E ops \in SeqsUpTo(ContentOps, MaxOps) :
             /\ buf = Spaced(ops)
             /\ want = [kind |-> "ops", ops |-> Vals(ops)]
       \/ \E rs \in SeqsUpTo(Regions, MaxRegions) \ {<<>>}, lead \in SeqsUpTo(ContentOps, 1) :
             /\ buf = Spaced(lead) \o Joined(rs)
             /\ want = [kind |-> "regions", lead |-> Vals(lead), regions |-> Vals(rs)]
       \/ \E outer \in SeqsUpTo(OuterOps, 1), ops \in SeqsUpTo(RunOps, MaxRuns) :
             /\ buf = Spaced(outer) \o <<"B", "T", SP>> \o Spaced(ops) \o <<"E", "T">>
             /\ want = [kind |-> "runs", outer |-> Vals(outer), ops |-> Vals(ops)]
    /\ pos = 0
    /\ state_stack = <<>>
    /\ aborted = FALSE
    /\ last = NoCall
    /\ debug_enabled = TRUE
    /\ pdf = EmptyPdf
    /\ phase = "lex"

NextText == LexAct \/ TextAct

SpecText == InitText /\ [][NextText]_vars

-----------------------------------------------------------------------------
(* Content streams `(string)Tj` for the lexer: every literal string that    *)
(* SpecLit gives to the tokenizer.                                          *)

InitShow ==
    /\ \E s \in LitStrings, escape_parens \in BOOLEAN :
          /\ buf = Encode(s, escape_parens) \o <<"T", "j">>
          /\ want = [kind |-> "string", str |-> s, literal |-> Encode(s, escape_parens)]
    /\ pos = 0
    /\ state_stack = <<>>
    /\ aborted = FALSE
    /\ last = NoCall
    /\ debug_enabled = TRUE
    /\ pdf = EmptyPdf
    /\ phase = "lex"

SpecShow == InitShow /\ [][NextText]_vars

-----------------------------------------------------------------------------
(* Whole documents for Reader::read.  Three families: a page tree under a   *)
(* Catalog, with the ways a file names its root; a run of definitions of    *)
(* small objects; one stream object with its line terminator and payload.   *)

MaxKids == 2
MaxDefs == 3
MaxPayload == 2

KeyType == <<"T", "y", "p", "e">>
NameCatalog == <<"/", "C", "a", "t", "a", "l", "o", "g">>
NamePages == <<"/", "P", "a", "g", "e", "s">>
NamePage == <<"/", "P", "a", "g", "e">>
PdfHeader == <<"%", "P", "D", "F", "-", "1", ".", "4", LF>>

Ref(n) == <<ToString(n), SP, "0", SP, "R">>
Pair(k, v) == <<"/">> \o k \o <<SP>> \o v \o <<SP>>
Dict(pairs) == <<"<", "<", SP>> \o pairs \o <<">", ">">>
Definition(n, g, body) ==
    <<ToString(n), SP, ToString(g), SP, "o", "b", "j", SP>> \o body \o <<SP>> \o KwEndobj
        \o <<LF>>
Obj(n, body) == Definition(n, 0, body)
StreamBody(pairs, terminator, raw) ==
    Dict(pairs) \o <<LF>> \o KwStream \o terminator \o raw \o <<LF>> \o KwEndstream

RECURSIVE Refs(_)
Refs(ns) ==
    IF ns = <<>> THEN <<>>
    ELSE IF Len(ns) = 1 THEN Ref(Head(ns))
    ELSE Ref(Head(ns)) \o <<SP>> \o Refs(Tail(ns))

PagesNode(n, kids) ==
    Obj(n, Dict(Pair(KeyType, NamePages) \o Pair(KeyKids, <<"[">> \o Refs(kids) \o <<"]">>)))
PageLeaf(n) == Obj(n, Dict(Pair(KeyType, NamePage) \o Pair(KeyContents, Ref(9))))
\* A page whose Contents is an array of references to streams.
PageArrayLeaf(n) ==
    Obj(n, Dict(Pair(KeyType, NamePage)
                  \o Pair(KeyContents, <<"[">> \o Refs(<<9, 9>>) \o <<"]">>)))
Catalog == Obj(1, Dict(Pair(KeyType, NameCatalog) \o Pair(KeyPages, Ref(2))))

\* The stored bytes of a compressed stream: what matters of them is how many
\* they are.
Raw(n) == [i \in 1..n |-> "z"]
ContentsObject == Obj(9, StreamBody(Pair(KeyLength, <<"1", "6">>), <<LF>>, Raw(16)))

\* The xref stream, the first object of the file: its offset is Len(PdfHeader).
XRefStreamFile ==
    Obj(5, StreamBody(Pair(KeyLength, <<"3">>)
                        \o Pair(KeyW, <<"[", "1", SP, "1", SP, "1", "]">>)
                        \o Pair(KeySize, <<"1">>) \o Pair(KeyRoot, Ref(1)),
                      <<LF>>, Raw(3)))

\* The k-th kid of the root is object 2 + k: a page, a page with an array of
\* contents, or a Pages node whose one kid, object 5 + k, is a page.
KidKinds == {"Page", "PageArray", "Pages"}

KidObjects(kinds, k) ==
    CASE kinds[k] = "Page" -> PageLeaf(2 + k)
      [] kinds[k] = "PageArray" -> PageArrayLeaf(2 + k)
      [] kinds[k] = "Pages" -> PagesNode(2 + k, <<5 + k>>) \o PageLeaf(5 + k)

RECURSIVE TreeObjects(_, _)
TreeObjects(kinds, k) ==
    IF k > Len(kinds) THEN <<>> ELSE KidObjects(kinds, k) \o TreeObjects(kinds, k + 1)

Tree(kinds) ==
    Catalog \o PagesNode(2, [k \in 1..Len(kinds) |-> 2 + k]) \o TreeObjects(kinds, 1)
            \o ContentsObject

StartXRefTail == KwStartxref \o <<LF, "9", LF, "%">> \o KwEOF
TrailerTail == KwTrailer \o <<LF>> \o Dict(Pair(KeyRoot, Ref(1))) \o <<LF>> \o StartXRefTail
XRefTableTail ==
    KwXref \o <<LF, "0", SP, "1", LF, "0", "0", "0", "0", "0", "0", "0", "0", "0", "0", SP,
                "6", "5", "5", "3", "5", SP, "f", SP, LF>> \o TrailerTail

\* How the file names its root: an xref stream at startxref, a trailer, an
\* xref table and a trailer, or nothing.
TreeDoc(kinds, root) ==
    CASE root = "xref_stream" -> PdfHeader \o XRefStreamFile \o Tree(kinds) \o StartXRefTail
      [] root = "trailer" -> PdfHeader \o Tree(kinds) \o TrailerTail
      [] root = "xref_table" -> PdfHeader \o Tree(kinds) \o XRefTableTail
      [] root = "none" -> PdfHeader \o Tree(kinds) \o <<"%">> \o KwEOF

Roots == {"xref_stream", "trailer", "xref_table", "none"}


\* `n g obj [v] endobj`: a definition of object (n, g) with the array [v].
ObjectIds == {<<1, 0>>, <<2, 0>>, <<1, 1>>}

Definitions ==
    {Written(Definition(id[1], id[2], <<"[", ToString(v), "]">>),
             [object_number |-> id[1], generation_number |-> id[2], num |-> v]) :
        id \in ObjectIds, v \in {7, 8}}

\* The definitions of a file with the offset each one starts at.
RECURSIVE Placed(_, _)
Placed(defs, at) ==
    IF defs = <<>> THEN <<>>
    ELSE <<[object_number |-> Head(defs).val.object_number,
            generation_number |-> Head(defs).val.generation_number,
            num |-> Head(defs).val.num, offset |-> at]>>
         \o Placed(Tail(defs), at + Len(Head(defs).text))

DefsDoc(defs) == PdfHeader \o Flatten(Vals([k \in DOMAIN defs |-> [val |-> defs[k].text]]))
                   \o <<"%">> \o KwEOF

\* `n 0 obj [7] endobj`, nothing after it.
Unended(n) == <<ToString(n), SP, "0", SP, "o", "b", "j", SP, "[", "7", "]", SP>> \o KwEndobj

\* The whitespace between `endobj` and the next token, and after the header
\* line of the file.
Separators == {<<LF>>, <<CR, LF>>, <<SP, LF>>, <<LF, SP, SP>>}
Leads == {<<>>, <<SP>>, <<CR, LF>>}

\* Objects 1 and 2, each after its whitespace.
SeparatedDoc(lead, separator, end) ==
    PdfHeader \o lead \o Unended(1) \o separator \o Unended(2) \o end \o <<"%">> \o KwEOF

\* The offsets of the first digit of the two headers.
HeaderOffsets(lead, separator) ==
    <<Len(PdfHeader) + Len(lead),
      Len(PdfHeader) + Len(lead) + Len(Unended(1)) + Len(separator)>>

Terminators == {<<LF>>, <<CR, LF>>, <<CR>>}
Payloads == SeqsUpTo({"a", SP, LF, CR}, MaxPayload) \ {<<>>}

StreamDoc(terminator, payload) ==
    PdfHeader \o Obj(1, StreamBody(Pair(KeyLength, <<ToString(Len(payload))>>), terminator,
                                   payload))
              \o <<"%">> \o KwEOF

InitRead ==
    /\ \/ \E kinds \in SeqsUpTo(KidKinds, MaxKids), root \in Roots :
             /\ New(TreeDoc(kinds, root))
             /\ want = [kind |-> "tree", kinds |-> kinds, root |-> root]
       \/ \E defs \in SeqsUpTo(Definitions, MaxDefs) \ {<<>>} :
             /\ New(DefsDoc(defs))
             /\ want = [kind |-> "objects", defs |-> Placed(defs, Len(PdfHeader))]
       \/ \E terminator \in Terminators, payload \in Payloads :
             /\ ~(terminator = <<CR>> /\ payload[1] = LF)
             /\ New(StreamDoc(terminator, payload))
             /\ want = [kind |-> "stream", terminator |-> terminator, payload |-> payload]
       \/ \E lead \in Leads, separator \in Separators, end \in Separators :
             /\ New(SeparatedDoc(lead, separator, end))
             /\ want = [kind |-> "separated", lead |-> lead, separator |-> separator,
                        offsets |-> HeaderOffsets(lead, separator)]
    /\ debug_enabled \in BOOLEAN

\* What inflating the xref stream and the page's contents can give.
Inflated(bytes) == [res |-> "ok", bytes |-> bytes]
NotInflated == [res |-> "panic", bytes |-> <<>>]
InflatedXRefs == {NotInflated, Inflated(<<1, 0, 0>>), Inflated(<<3, 0, 0>>)}
InflatedPages == {NotInflated} \cup {Inflated(r.text) : r \in Regions}

NextRead ==
    \/ ParseStep
    \/ \E inflated_xref \in InflatedXRefs, inflated_page \in InflatedPages :
          BuildTreeAct(inflated_xref, inflated_page)

SpecRead == InitRead /\ [][NextRead]_vars

-----------------------------------------------------------------------------
(* Payloads for parse_xref_stream: every sequence of up to MaxXRefLen of    *)
(* the bytes 0, 1, 2 and 7 (7 is no entry type), decoded under each W.      *)

MaxXRefLen == 6

XRefBytes == {0, 1, 2, 7}

WidthVectors ==
    {<<1, 1, 1>>, <<1, 2, 1>>, <<1, 1, 2>>, <<1, 0, 1>>, <<2, 1, 1>>, <<0, 1, 1>>,
     <<1, 1>>, <<1, 9, 1>>, <<1, 257, 1>>}

InitXRefStream ==
    /\ buf \in SeqsUpTo(XRefBytes, MaxXRefLen)
    /\ pos = 0
    /\ state_stack = <<>>
    /\ aborted = FALSE
    /\ last = NoCall
    /\ debug_enabled = TRUE
    /\ pdf = EmptyPdf
    /\ phase = "xref_stream"
    /\ want = NoVal

NextXRefStream == \E widths \in WidthVectors : XRefStreamAct(widths)

SpecXRefStream == InitXRefStream /\ [][NextXRefStream]_vars

-----------------------------------------------------------------------------
(* The loop of read_pages, one iteration at a time, on object tables built  *)
(* directly: object 2 is the Pages root, whose Kids name any of the objects *)
(* 2..5; object 3 is a page or a Pages node that lists 2, 3 or 4 (so that   *)
(* Kids can form a cycle), object 4 is a page, object 5 does not exist.     *)
(* `last` holds the kids still to come and the pages pushed so far.         *)

MaxWalkKids == 2

KidNumbers == {2, 3, 4, 5}

StoredObject(n, value) ==
    [header |-> [object_number |-> n, generation_number |-> 0], value |-> value,
     offset |-> 0]

PagesValue(kids) ==
    VDictionary(insert(EmptyDictionary, KeyKids,
                       VArray([k \in DOMAIN kids |-> VObjectReference(kids[k], 0)])))
PageValue == VDictionary(insert(EmptyDictionary, KeyContents, VObjectReference(9, 0)))

ThirdObjects == {PageValue} \cup {PagesValue(<<n>>) : n \in {2, 3, 4}}

ObjectTable(kids, third) ==
    [h \in {[object_number |-> n, generation_number |-> 0] : n \in {2, 3, 4, 9}} |->
        StoredObject(h.object_number,
                     CASE h.object_number = 2 -> PagesValue(kids)
                       [] h.object_number = 3 -> third
                       [] h.object_number = 4 -> PageValue
                       [] h.object_number = 9 -> VStream(EmptyDictionary, <<>>))]

\* read_pages has been called with the root's dictionary: `kids` is bound.
InitWalk ==
    /\ \E kids \in SeqsUpTo(KidNumbers, MaxWalkKids), third \in ThirdObjects :
          /\ pdf = [EmptyPdf EXCEPT !.objects = ObjectTable(kids, third)]
          /\ want = [kind |-> "walk", kids |-> PagesValue(kids).dictionary[KeyKids].items]
          /\ last = [op |-> "read_pages", res |-> "running", kids |-> want.kids,
                     pages |-> <<>>]
    /\ buf = <<>>
    /\ pos = 0
    /\ state_stack = <<>>
    /\ aborted = FALSE
    /\ debug_enabled = TRUE
    /\ phase = "walk"

WalkReturned(res, pages) ==
    /\ last' = [last EXCEPT !.res = res, !.pages = pages]
    /\ aborted' = (res = "panic")
    /\ phase' = "done"
    /\ UNCHANGED <<buf, pos, state_stack, debug_enabled, pdf, want>>

\* One iteration of `for kid in kids.iter()`: the page is pushed, or the
\* function returns Err or panics.
KidIteration(r) ==
    IF r.res = "ok"
    THEN /\ last' = [last EXCEPT !.kids = Tail(@), !.pages = r.val]
         /\ UNCHANGED <<buf, pos, state_stack, aborted, debug_enabled, pdf, phase, want>>
    ELSE WalkReturned(r.res, last.pages)

\* An iteration that goes on with the Kids of a kid that has some.
KidStepDescending ==
    /\ phase = "walk"
    /\ last.kids # <<>>
    /\ With(get_object_by_reference(pdf.objects, Head(last.kids)), LAMBDA object :
       IF object.some /\ object.v.value.t = "Dictionary"
             /\ KeyKids \in DOMAIN object.v.value.dictionary
       THEN /\ last' = [last EXCEPT
                           !.kids = object.v.value.dictionary[KeyKids].items \o Tail(@)]
            /\ UNCHANGED <<buf, pos, state_stack, aborted, debug_enabled, pdf, phase, want>>
       ELSE KidIteration(KidsLoop(pdf.objects, <<Head(last.kids)>>, last.pages)))

KidStep ==
    /\ phase = "walk"
    /\ last.kids # <<>>
    /\ KidIteration(KidsLoop(pdf.objects, <<Head(last.kids)>>, last.pages))

\* The loop is over: Ok(pages).
WalkEnd ==
    /\ phase = "walk"
    /\ last.kids = <<>>
    /\ WalkReturned("ok", last.pages)

NextWalk ==
    \/ KidStep
    \/ WalkEnd

SpecWalk == InitWalk /\ [][NextWalk]_vars

\* read_pages is a loop of one thread: its next iteration is always taken.
SpecWalkFair == SpecWalk /\ WF_vars(NextWalk)

-----------------------------------------------------------------------------
(* Files for the whole interface of the tokenizer: an object with a stream, *)
(* a dictionary `<< /A v /B 1 >>` for every kind of value v, a name before  *)
(* every byte that can follow it where a key, a value and an array element  *)
(* are read, and a classical xref table of 1..MaxEntries entries with each  *)
(* end-of-line convention.  All but the name files end with %%EOF.  On each *)
(* file                                                                     *)
(* either a caller makes any calls of the trait PDFTokenize in any order    *)
(* (phase "calls"), or Reader::parse runs (phase "parse").                  *)

MaxEntries == 2

EndOfFile == <<"%">> \o KwEOF

StreamFile ==
    Written(Obj(1, StreamBody(Pair(KeyLength, <<"2">>), <<LF>>, <<"a", "b">>)) \o EndOfFile,
            [kind |-> "stream", length |-> 2])

\* A value as written and the token that completes it.
DictionaryValues ==
    {Written(<<"/", "N">>, "Name"), Written(KwTrue, "Boolean"), Written(<<"7">>, "Number"),
     Written(Ref(3), "ObjectReference"), Written(<<"(", "s", ")">>, "String"),
     Written(<<"<", "4", "1", ">">>, "HexString"), Written(KwNull, "Null"),
     Written(<<"[", "7", "]">>, "ArrayEnd"),
     Written(<<"<", "<", "/", "C", SP, "1", ">", ">">>, "DictionaryEnd")}

ValueFiles ==
    {Written(Obj(1, <<"<", "<", SP, "/", "A", SP>> \o v.text
                       \o <<SP, "/", "B", SP, "1", SP, ">", ">">>) \o EndOfFile,
             [kind |-> "value", value |-> v.val]) : v \in DictionaryValues}

\* The bytes the name /A is followed by, and the states it is read in.
NameEnds == {SP, LF, CR, "/", "<", "[", "(", ">", "]"}
NameStates == {"DictionaryKey", "DictionaryValue", "ListValue"}

NamePrefix(state) ==
    CASE state = "DictionaryKey" -> ObjHeader \o <<"<", "<">>
      [] state = "DictionaryValue" -> InDictionaryValue
      [] state = "ListValue" -> InArray

NameFiles ==
    {Written(NamePrefix(state) \o <<"/", "A", c, "B", "]">>,
             [kind |-> "name", state |-> state, end |-> c]) :
        state \in NameStates, c \in NameEnds}

\* The end of a line of the file, and of a 20-byte xref entry.
Eols == {"LF", "CRLF", "CR"}
Eol(e) == CASE e = "LF" -> <<LF>> [] e = "CRLF" -> <<CR, LF>> [] e = "CR" -> <<CR>>
EntryEol(e) == CASE e = "LF" -> <<SP, LF>> [] e = "CRLF" -> <<CR, LF>> [] e = "CR" -> <<SP, CR>>

Zeros(n) == [k \in 1..n |-> "0"]

\* `nnnnnnnnnn ggggg n`, or the head of the free list for the first entry.
EntryLine(k) ==
    IF k = 1 THEN Zeros(10) \o <<SP, "6", "5", "5", "3", "5", SP, "f">>
    ELSE Zeros(9) \o <<ToString(k), SP>> \o Zeros(5) \o <<SP, "n">>

EntryOf(k) ==
    IF k = 1 THEN [t |-> "XRefEntry", byte_offset |-> 0, generation_number |-> 65535,
                   free |-> TRUE]
    ELSE [t |-> "XRefEntry", byte_offset |-> k, generation_number |-> 0, free |-> FALSE]

RECURSIVE EntryLines(_, _, _)
EntryLines(e, k, n) ==
    IF k > n THEN <<>> ELSE EntryLine(k) \o EntryEol(e) \o EntryLines(e, k + 1, n)

XRefFile(e, n) ==
    Written(KwXref \o Eol(e) \o <<"0", SP, ToString(n)>> \o Eol(e) \o EntryLines(e, 1, n)
              \o KwTrailer \o Eol(e) \o Dict(Pair(KeyRoot, Ref(1))) \o Eol(e) \o EndOfFile,
            [kind |-> "xref", eol |-> e, entries |-> [k \in 1..n |-> EntryOf(k)]])

XRefFiles == {XRefFile(e, n) : e \in Eols, n \in 1..MaxEntries}

CallFiles == {StreamFile} \cup ValueFiles \cup NameFiles \cup XRefFiles

\* The lengths a caller asks get_stream for.
StreamReads == {0, 2}

InitCalls ==
    /\ \E f \in CallFiles : buf = f.text /\ want = f.val
    /\ pos = 0
    /\ state_stack = <<"Start">>
    /\ aborted = FALSE
    /\ last = NoCall
    /\ pdf = EmptyPdf
    /\ phase \in {"calls", "parse"}
    /\ debug_enabled = TRUE

Call ==
    \/ NextAct
    \/ PeakNextAct
    \/ \E k \in 0..MaxPeek : PeakMultipleAct(k)
    \/ \E num_bytes \in StreamReads : GetStreamAct(num_bytes)
    \/ \E num_entries \in 0..MaxEntries : GetXRefTableAct(num_entries)

NextCalls ==
    \/ phase = "calls" /\ Call
    \/ ParseStep

SpecCalls == InitCalls /\ [][NextCalls]_vars

-----------------------------------------------------------------------------
(* Properties of the tokenizer's calls.  They read `last`: the call just    *)
(* made, the cursor and the stack it started from, and what it returned.    *)

\* The state the last call started in, and the offset of the first byte it
\* did not skip (-1 when only SP, LF and CR were left).
PreState == IF last.pre_stack = <<>> THEN "none" ELSE last.pre_stack[Len(last.pre_stack)]
TokenStart == FindNot(buf, last.pre_pos, SkippedWs)

\* The offset past the run of decimal digits that starts at offset s.
DigitRunEnd(b, s) ==
    IF \E i \in s..(Len(b) - 1) : b[i + 1] \notin Digits
    THEN CHOOSE i \in s..(Len(b) - 1) :
            b[i + 1] \notin Digits /\ \A j \in s..(i - 1) : b[j + 1] \in Digits
    ELSE Len(b)

\* The offset past the numeric literal (sign, digits, point) at offset s.
LiteralEnd(b, s) ==
    IF \E i \in s..(Len(b) - 1) : b[i + 1] \notin Digits \cup {"-", "."}
    THEN CHOOSE i \in s..(Len(b) - 1) :
            /\ b[i + 1] \notin Digits \cup {"-", "."}
            /\ \A j \in s..(i - 1) : b[j + 1] \in Digits \cup {"-", "."}
    ELSE Len(b)

\* The bytes at offset s are `N G ` (two unsigned integers, each followed by
\* one space); g is the offset of G and e the offset past the second space.
TwoIntegers(b, s, g, e) ==
    /\ g = DigitRunEnd(b, s) + 1
    /\ e = DigitRunEnd(b, g) + 1
    /\ s < g - 1 /\ g < e - 1 /\ e <= Len(b)
    /\ b[g] = SP /\ b[e] = SP

\* The bytes at offset s are `N G R`.
FormsReference(b, s) ==
    \E g, e \in s..Len(b) : TwoIntegers(b, s, g, e) /\ e < Len(b) /\ b[e + 1] = "R"

\* The file ends after `N G `, where the byte to compare with R is read.
EndsInReference(b, s) == \E g, e \in s..Len(b) : TwoIntegers(b, s, g, e) /\ e = Len(b)

\* The last call was next in DictionaryValue or ListValue, at a digit or '-'.
NextAtNumber ==
    /\ last.op = "next"
    /\ PreState \in {"DictionaryValue", "ListValue"}
    /\ TokenStart # -1
    /\ buf[TokenStart + 1] \in Digits \cup {"-"}

\* C1: peak_next and then next return the same token, and leave the cursor
\* and the state stack where next alone, called where peak_next was called,
\* leaves them; peak_next itself leaves both as they were, also when it
\* returns an Err.
PeekThenNext ==
    /\ (last.op = "peak_next" /\ last.res # "panic")
          => pos = last.pre_pos /\ state_stack = last.pre_stack
    /\ (last.op = "next" /\ last.peeked.some)
          => With(next(buf, last.peeked.pre_pos, last.peeked.pre_stack), LAMBDA alone :
             /\ last.res = last.peeked.res
             /\ last.toks = last.peeked.toks
             /\ last.res = alone.res
             /\ pos = alone.pos
             /\ state_stack = alone.stack)

\* A next that follows a peak_next, returns a token and moves the cursor and
\* the stack.
PeekThenNextWitness ==
    /\ last.op = "next" /\ last.peeked.some /\ last.res = "ok"
    /\ last.toks = last.peeked.toks
    /\ pos > last.pre_pos
    /\ state_stack # last.pre_stack

\* C2: peak_multiple(k) leaves the cursor and the state stack as they were
\* on every path that returns, the one where a next returns Err included.
PeakMultipleRestores ==
    (last.op = "peak_multiple" /\ last.res # "panic")
       => pos = last.pre_pos /\ state_stack = last.pre_stack

\* peak_multiple has returned the Err of one of its next calls.
PeakMultipleErr == last.op = "peak_multiple" /\ last.res = "err"

\* The tokens of k next calls in a row from cursor o and stack st.
RECURSIVE SuccessiveNext(_, _, _, _, _)
SuccessiveNext(b, o, st, k, tokens) ==
    IF k = 0 THEN [res |-> "ok", toks |-> tokens]
    ELSE With(next(b, o, st), LAMBDA r :
         IF r.res = "ok"
         THEN SuccessiveNext(b, r.pos, r.stack, k - 1, Append(tokens, r.tok))
         ELSE [res |-> r.res, toks |-> <<>>])

\* C3: peak_multiple(k) returns k tokens, the ones that k next calls in a row
\* return from the same cursor and state stack.
PeakMultipleTokens ==
    last.op = "peak_multiple"
       => With(SuccessiveNext(buf, last.pre_pos, last.pre_stack, last.arg, <<>>),
               LAMBDA successive :
               successive.res = "ok"
                  => /\ last.res = "ok"
                     /\ Len(last.toks) = last.arg
                     /\ last.toks = successive.toks)

\* peak_multiple(k), k >= 1, has returned Ok where k next calls return tokens.
PeakMultipleOk ==
    /\ last.op = "peak_multiple" /\ last.arg >= 1 /\ last.res = "ok"
    /\ SuccessiveNext(buf, last.pre_pos, last.pre_stack, last.arg, <<>>).res = "ok"

NextAtHexString ==
    /\ last.op = "next"
    /\ want.t = "HexString"
    /\ PreState \in {"DictionaryValue", "ListValue"}
    /\ TokenStart # -1
    /\ buf[TokenStart + 1] = "<"

\* The bytes that the hex digits h denote: a '0' is added to an odd number of
\* digits, and byte i is digit 2i-1 (high) and digit 2i (low), left to right.
HexValue(h) ==
    With(IF Len(h) % 2 = 1 THEN Append(h, "0") ELSE h, LAMBDA padded :
    [i \in 1..(Len(padded) \div 2) |->
        16 * DigitVal(padded[2 * i - 1]) + DigitVal(padded[2 * i])])

\* C6: `<h>` tokenizes to HexString of the bytes of h taken left to right in
\* pairs, h padded with a '0' when odd, every digit of h (the first one too)
\* being part of a byte: `<4A4B4>` gives 4A 4B 40.
HexStringBytes ==
    NextAtHexString
       => /\ last.res = "ok"
          /\ last.toks = <<[t |-> "HexString", bytes |-> HexValue(want.digits)]>>

\* `<4A4B4>` has been tokenized.
HexStringRead ==
    /\ NextAtHexString /\ last.res = "ok"
    /\ want.digits = <<"4", "A", "4", "B", "4">>
    /\ last.toks[1].t = "HexString"

\* The file with one '0' added to its hex string.
WithZero(b) == SubSeq(b, 1, Len(b) - 1) \o <<"0", ">">>

\* C7: for h of odd length, `<h>` and `<h0>` tokenize to the same HexString.
HexStringParity ==
    (NextAtHexString /\ Len(want.digits) % 2 = 1)
       => With(next(WithZero(buf), last.pre_pos, last.pre_stack), LAMBDA zero :
          /\ last.res = "ok" /\ zero.res = "ok"
          /\ last.toks = <<zero.tok>>)

\* A hex string of odd length has been tokenized.
OddHexStringRead ==
    /\ NextAtHexString /\ last.res = "ok"
    /\ Len(want.digits) % 2 = 1 /\ Len(want.digits) >= 3

\* The last call was made at the opening parenthesis of the literal string of
\* the file.
AtLiteralString ==
    /\ last.op \in {"next", "peak_next"}
    /\ want.t = "String"
    /\ PreState \in {"Object", "DictionaryValue", "ListValue"}
    /\ TokenStart # -1
    /\ buf[TokenStart + 1] = "("

\* C8: a byte string with no unmatched parenthesis, written as a literal
\* string (balanced parentheses as they are or escaped; backslash and control
\* bytes escaped), tokenizes to String of that byte string: nested balanced
\* parentheses stay in it and only the outer pair goes.
LiteralRoundTrip ==
    AtLiteralString
       => /\ last.res = "ok"
          /\ last.toks = <<[t |-> "String", str |-> want.str]>>
          /\ last.op = "next" => pos = Len(buf)

\* `((a))`, the byte string (a) with its parentheses kept, has been read.
NestedLiteralRead ==
    /\ AtLiteralString /\ last.op = "next" /\ last.res = "ok"
    /\ want.str = <<"(", "a", ")">>
    /\ buf[Len(buf) - 1] = ")" /\ buf[Len(buf) - 2] = "a" /\ buf[Len(buf) - 3] = "("
    /\ last.toks[1].str = want.str

-----------------------------------------------------------------------------
(* Properties of the reader.  They read the object table and last.calls,    *)
(* the calls that the last iteration of the loop of parse made.             *)

TheObject == [object_number |-> 1, generation_number |-> 0]

\* The last iteration read the object of the file (its header came first).
ObjectStep ==
    /\ last.op = "parse"
    /\ last.calls # <<>>
    /\ last.calls[1].tok.t = "ObjectHeader"

\* The cursor and the stack that call i of the last iteration started from.
Pre(i) ==
    IF i = 1 THEN [pos |-> last.pre_pos, stack |-> last.pre_stack]
    ELSE [pos |-> last.calls[i - 1].pos, stack |-> last.calls[i - 1].stack]

\* Call i is a next or a peak_next made in DictionaryValue or ListValue at an
\* unsigned integer, which starts at offset s.
AtInteger(i, pre, s) ==
    /\ last.calls[i].op \in {"next", "peak_next"}
    /\ pre.stack # <<>>
    /\ pre.stack[Len(pre.stack)] \in {"DictionaryValue", "ListValue"}
    /\ s # -1
    /\ buf[s + 1] \in Digits
    /\ DigitRunEnd(buf, s) = LiteralEnd(buf, s)

IntegerAt(s) == DigitsVal(SubSeq(buf, s + 1, DigitRunEnd(buf, s)), 10)

KReference ==
    DictOf(<<"K">>, Written(<<"3", SP, "0", SP, "R">>, VObjectReference(3, 0)), <<"C">>, FALSE)

TwoNumbersArray ==
    Written(<<"[", "3", SP, "0", "]">>, VArray(<<VNumber(Int64(3)), VNumber(Int64(0))>>))

\* C5: in DictionaryValue and ListValue, `N G R` is one ObjectReference{N, G}
\* token and an integer that starts no `N G R` is a Number of its own, so
\* that `<< /K 3 0 R >>` is parsed to {K: Reference 3 0} and `[3 0]` to the
\* array of Number 3 and Number 0.
ReferenceOrNumbers ==
    /\ \A i \in 1..Len(last.calls) :
          With(FindNot(buf, Pre(i).pos, SkippedWs), LAMBDA s :
          AtInteger(i, Pre(i), s)
             => last.calls[i].tok =
                   IF FormsReference(buf, s)
                   THEN [t |-> "ObjectReference", object_number |-> IntegerAt(s),
                         generation_number |-> IntegerAt(DigitRunEnd(buf, s) + 1)]
                   ELSE [t |-> "Number", num |-> [n |-> IntegerAt(s), d |-> 0]])
    /\ (ObjectStep /\ buf = DocOf(KReference))
          => /\ last.res = "ok"
             /\ pdf.objects[TheObject].value =
                   [t |-> "Dictionary",
                    dictionary |-> (<<"K">> :> [t |-> "ObjectReference",
                                                object_number |-> 3,
                                                generation_number |-> 0])]
    /\ (ObjectStep /\ buf = DocOf(TwoNumbersArray))
          => /\ last.res = "ok"
             /\ pdf.objects[TheObject].value =
                   [t |-> "Array",
                    items |-> <<[t |-> "Number", num |-> [n |-> 3, d |-> 0]],
                                [t |-> "Number", num |-> [n |-> 0, d |-> 0]]>>]

\* `<< /K 3 0 R >>` has been parsed, its reference read by a next in
\* DictionaryValue.
ReferenceParsed ==
    /\ ObjectStep /\ last.res = "ok" /\ buf = DocOf(KReference)
    /\ \E i \in 1..Len(last.calls) :
          /\ last.calls[i].op = "next"
          /\ last.calls[i].tok.t = "ObjectReference"
          /\ Pre(i).stack[Len(Pre(i).stack)] = "DictionaryValue"

KeyLengthValue(dictionary) ==
    IF KeyLength \in DOMAIN dictionary THEN dictionary[KeyLength] ELSE NoVal

\* C9: every Stream{dict, bytes} in the object table has len(bytes) equal to
\* dict["Length"], and the call that followed the read of its bytes was a
\* next that returned StreamEnd.
StreamLengthLaw ==
    /\ \A h \in DOMAIN pdf.objects :
          pdf.objects[h].value.t = "Stream"
             => KeyLengthValue(pdf.objects[h].value.dictionary) =
                   [t |-> "Number",
                    num |-> [n |-> Len(pdf.objects[h].value.bytes), d |-> 0]]
    /\ (ObjectStep /\ last.res = "ok" /\ pdf.objects[TheObject].value.t = "Stream")
          => \E i \in 1..(Len(last.calls) - 1) :
                /\ last.calls[i].op = "get_stream"
                /\ last.calls[i].tok.bytes = pdf.objects[TheObject].value.bytes
                /\ last.calls[i + 1].op = "next"
                /\ last.calls[i + 1].tok.t = "StreamEnd"

\* A Stream has been produced from a dictionary whose Length is 1.5.
FractionalLengthStream ==
    /\ TheObject \in DOMAIN pdf.objects
    /\ pdf.objects[TheObject].value.t = "Stream"
    /\ pdf.objects[TheObject].value.dictionary[KeyLength].num = [n |-> 15, d |-> 1]

\* The stack st ends with the DictionaryKey of a dictionary that is the value
\* of a key of an enclosing dictionary.
InNestedDictionary(st) ==
    /\ Len(st) >= 3
    /\ st[Len(st)] = "DictionaryKey"
    /\ st[Len(st) - 1] = "DictionaryValue"
    /\ st[Len(st) - 2] = "DictionaryKey"

NestedExample ==
    DictOf(<<"A">>, DictOf(<<"B">>, Written(<<"1">>, VNumber(Int64(1))), <<"D">>, FALSE),
           <<"C">>, TRUE)

\* C10: the DictionaryEnd of a dictionary that is the value of a key pops the
\* inner DictionaryKey and the DictionaryValue, which leaves the enclosing
\* DictionaryKey on top; a file written from nested dictionaries is parsed to
\* the value it was written from, `<< /A << /B 1 >> /C 2 >>` to a dictionary
\* of the two keys A and C.
NestedDictionaries ==
    /\ \A i \in 1..Len(last.calls) :
          (/\ last.calls[i].op = "next"
           /\ last.calls[i].tok.t = "DictionaryEnd"
           /\ InNestedDictionary(Pre(i).stack))
             => /\ last.calls[i].stack = SubSeq(Pre(i).stack, 1, Len(Pre(i).stack) - 2)
                /\ last.calls[i].stack[Len(last.calls[i].stack)] = "DictionaryKey"
    /\ (ObjectStep /\ want.t \in {"Dictionary", "Array"})
          => /\ last.res = "ok"
             /\ pdf.objects[TheObject].value = want
    /\ (ObjectStep /\ buf = DocOf(NestedExample))
          => /\ DOMAIN pdf.objects[TheObject].value.dictionary = {<<"A">>, <<"C">>}
             /\ pdf.objects[TheObject].value.dictionary[<<"A">>] =
                   [t |-> "Dictionary",
                    dictionary |-> (<<"B">> :> [t |-> "Number", num |-> [n |-> 1, d |-> 0]])]
             /\ pdf.objects[TheObject].value.dictionary[<<"C">>] =
                   [t |-> "Number", num |-> [n |-> 2, d |-> 0]]

\* `<< /A << /B 1 >> /C 2 >>` has been parsed, the inner DictionaryEnd read
\* inside the outer dictionary.
NestedExampleParsed ==
    /\ ObjectStep /\ last.res = "ok" /\ buf = DocOf(NestedExample)
    /\ \E i \in 1..Len(last.calls) :
          /\ last.calls[i].tok.t = "DictionaryEnd"
          /\ InNestedDictionary(Pre(i).stack)

-----------------------------------------------------------------------------
(* Properties of build_tree.  They read `last`: what get_root_object,       *)
(* get_pages_dict and read_pages returned in the call just made.            *)

\* The text of a name as the value parser delivers it.
NameText(v) ==
    CASE v.t = "Name" -> v.name
      [] v.t = "String" -> v.str
      [] OTHER -> <<>>

\* The leaf pages under the node with dictionary d: a node with Kids stands
\* for the leaves under its kids, a node without Kids is a leaf, which counts
\* when its Type is /Page.  `depth` bounds the descent.
RECURSIVE LeafPages(_, _, _)
RECURSIVE KidLeaves(_, _, _)
LeafPages(objects, d, depth) ==
    IF KeyKids \in DOMAIN d
    THEN (IF depth = 0 \/ d[KeyKids].t # "Array" THEN 0
          ELSE KidLeaves(objects, d[KeyKids].items, depth - 1))
    ELSE IF KeyType \in DOMAIN d /\ NameText(d[KeyType]) = <<"P", "a", "g", "e">> THEN 1
    ELSE 0

KidLeaves(objects, kids, depth) ==
    IF kids = <<>> THEN 0
    ELSE (IF /\ Head(kids).t = "ObjectReference"
             /\ Header(Head(kids)) \in DOMAIN objects
             /\ objects[Header(Head(kids))].value.t = "Dictionary"
          THEN LeafPages(objects, objects[Header(Head(kids))].value.dictionary, depth)
          ELSE 0)
         + KidLeaves(objects, Tail(kids), depth)

ReadPagesCalled == last.op = "build_tree" /\ last.pages_dict.res = "ok"

\* C11: whenever read_pages is called on the Pages root of the document, it
\* returns one Page record for each leaf node with Type /Page that can be
\* reached from that root through Kids arrays, at any depth.
PagesTraversalComplete ==
    ReadPagesCalled =>
        /\ last.pages.res = "ok"
        /\ Len(last.pages.val)
             = LeafPages(pdf.objects, last.pages_dict.val, Cardinality(DOMAIN pdf.objects))

\* read_pages was called on a root one of whose kids is itself a Pages node
\* with a page under it.
NestedPagesRead ==
    /\ ReadPagesCalled
    /\ want.kind = "tree"
    /\ \E k \in DOMAIN want.kinds : want.kinds[k] = "Pages"
    /\ LeafPages(pdf.objects, last.pages_dict.val, Cardinality(DOMAIN pdf.objects)) > 0

-----------------------------------------------------------------------------
(* Properties of the lexer and the text extractor.  They read `last`: the   *)
(* tokens that parse returned and the text objects got from them.           *)

IsBegin(token) == token.t = "BeginTextObject"
IsEnd(token) == token.t = "EndTextObject"
IsShow(token) == token.t = "ShowTextString"

\* The pairs <<b, e>> of a BeginTextObject and the EndTextObject that closes
\* it: no other of the two lies between them.
ClosedRegions(tokens) ==
    {be \in (DOMAIN tokens) \X (DOMAIN tokens) :
        /\ be[1] < be[2]
        /\ IsBegin(tokens[be[1]]) /\ IsEnd(tokens[be[2]])
        /\ \A k \in (be[1] + 1)..(be[2] - 1) : ~IsBegin(tokens[k]) /\ ~IsEnd(tokens[k])}

\* The i-th of them in stream order.
NthRegion(tokens, i) ==
    CHOOSE be \in ClosedRegions(tokens) :
        Cardinality({x \in ClosedRegions(tokens) : x[1] < be[1]}) = i - 1

\* The strings shown by the tokens b..e, in order.
RECURSIVE ShownBetween(_, _, _)
ShownBetween(tokens, b, e) ==
    IF b > e THEN <<>>
    ELSE (IF IsShow(tokens[b]) THEN <<tokens[b].text>> ELSE <<>>)
         \o ShownBetween(tokens, b + 1, e)

RunTexts(text_object) ==
    [k \in DOMAIN text_object.positioned_text |-> text_object.positioned_text[k].text]

TextObjectsReturned == last.op = "get_text_objects" /\ last.res = "ok"

\* C12: when get_text_objects returns, its text objects are, in order, the
\* BeginTextObject..EndTextObject pairs of the token sequence, and the runs of
\* each are exactly the strings shown between its BeginTextObject and its
\* EndTextObject: a text object that is never closed and a ShowTextString
\* outside every text object give nothing.
TextObjectsWellFormed ==
    TextObjectsReturned =>
        /\ Len(last.text_objects) = Cardinality(ClosedRegions(last.tokens))
        /\ \A i \in DOMAIN last.text_objects :
              RunTexts(last.text_objects[i])
                = ShownBetween(last.tokens, NthRegion(last.tokens, i)[1],
                               NthRegion(last.tokens, i)[2])

\* A text object with a run was emitted from a stream that also shows a
\* string outside every text object, or opens a text object it never closes.
TextObjectEmitted ==
    /\ TextObjectsReturned
    /\ \E i \in DOMAIN last.text_objects : last.text_objects[i].positioned_text # <<>>
    /\ \E k \in DOMAIN last.tokens :
          /\ IsShow(last.tokens[k]) \/ IsBegin(last.tokens[k])
          /\ \A be \in ClosedRegions(last.tokens) : k < be[1] \/ k > be[2]


IsSetTextMatrix(token) == token.t = "SetTextMatrix"

\* The k-th token shows a string inside the text object begun at b, and no
\* SetTextMatrix lies between that BeginTextObject and it.
ShownWithoutMatrix(tokens, b, k) ==
    /\ b < k
    /\ IsBegin(tokens[b]) /\ IsShow(tokens[k])
    /\ \A j \in (b + 1)..(k - 1) :
          ~IsBegin(tokens[j]) /\ ~IsEnd(tokens[j]) /\ ~IsSetTextMatrix(tokens[j])

TextObjectsCalled == last.op = "get_text_objects"

\* C13: when a ShowTextString lies in a text object with no SetTextMatrix
\* between that text object's BeginTextObject and it, get_text_objects does
\* not return: a matrix set in an earlier text object does not count.
ShowTextNeedsOwnMatrix ==
    (/\ TextObjectsCalled
     /\ \E b, k \in DOMAIN last.tokens : ShownWithoutMatrix(last.tokens, b, k))
        => last.res # "ok"

\* get_text_objects returned although a later text object shows a string
\* with no SetTextMatrix of its own, an earlier text object having set one.
EarlierMatrixReused ==
    /\ TextObjectsReturned
    /\ \E b, k \in DOMAIN last.tokens :
          /\ ShownWithoutMatrix(last.tokens, b, k)
          /\ \E j \in 1..(b - 1) : IsSetTextMatrix(last.tokens[j])


-----------------------------------------------------------------------------
(* Properties of a whole read: parse, then build_tree.                      *)

BuildTreeCalled == last.op = "build_tree"

\* The file is a one-page document that names its root.
MinimalDocument ==
    want.kind = "tree" /\ want.kinds = <<"Page">> /\ want.root # "none"

\* The text of MinimalContent: one text object with the run Hello at 72, 720.
MinimalText ==
    <<[positioned_text |-> <<[text |-> MinimalContent.val.text, x |-> MinimalContent.val.x,
                              y |-> MinimalContent.val.y]>>]>>

\* C14: reading a well-formed one-page document whose content stream is
\* `BT /F1 12 Tf 1 0 0 1 72 720 Tm (Hello)Tj ET` completes without error with
\* one page, whose text is one text object with the run Hello at 72, 720.
MinimalDocumentRead ==
    (BuildTreeCalled /\ MinimalDocument)
        => /\ last.res = "ok"
           /\ Len(pdf.pages) = 1
           /\ last.page_text.tokens = ContentParse(MinimalContent.text).tokens
                 => last.page_text.text = BOk(MinimalText)

\* The one page of a minimal document was found and its text extracted, and
\* the read still did not complete.
MinimalTextExtracted ==
    /\ BuildTreeCalled /\ MinimalDocument
    /\ Len(pdf.pages) = 1
    /\ last.page_text.text = BOk(MinimalText)
    /\ last.res = "panic"


\* The stream is whole text objects one after another, after at most one
\* operator that opens no text object and that the lexer knows.
ConsecutiveRegions ==
    /\ want.kind = "regions"
    /\ \A k \in DOMAIN want.lead : want.lead[k] \notin {"BeginTextObject", "Unknown"}

\* The run a region was written with.
RunOf(region) == [text |-> region.text, x |-> region.x, y |-> region.y]

\* C15: a stream of n consecutive BT ... ET regions yields n text objects in
\* the order of the stream, each holding the one string of its own region and
\* nothing of an earlier one, at the position of its own text matrix; so
\* `BT /F1 12 Tf 1 0 0 1 10 20 Tm (A)Tj ET BT /F1 12 Tf 1 0 0 1 30 40 Tm (B)Tj ET`
\* yields (A, 10, 20) and then (B, 30, 40).
TextObjectsInStreamOrder ==
    (TextObjectsCalled /\ ConsecutiveRegions)
        => /\ (\A i \in DOMAIN want.regions : want.regions[i].matrix) => last.res = "ok"
           /\ last.res = "ok" =>
                /\ Len(last.text_objects) = Len(want.regions)
                /\ \A i \in DOMAIN want.regions :
                      /\ RunTexts(last.text_objects[i]) = <<want.regions[i].text>>
                      /\ want.regions[i].matrix =>
                            last.text_objects[i].positioned_text = <<RunOf(want.regions[i])>>

\* Two different regions, each with its text matrix, gave their text objects.
TwoTextObjectsEmitted ==
    /\ TextObjectsReturned /\ ConsecutiveRegions
    /\ Len(want.regions) = 2
    /\ want.regions[1].matrix /\ want.regions[2].matrix
    /\ want.regions[1].text # want.regions[2].text
    /\ Len(last.text_objects) = 2


\* The document has a trailer dictionary whose Root is a reference to an
\* object of the document.
TrailerNamesRoot ==
    /\ pdf.trailer.some
    /\ KeyRoot \in DOMAIN pdf.trailer.v
    /\ pdf.trailer.v[KeyRoot].t = "ObjectReference"
    /\ get_object_by_reference(pdf.objects, pdf.trailer.v[KeyRoot]).some

\* C16: when the document has a trailer dictionary whose Root entry is a
\* reference to an existing object, get_root_object returns that object, and
\* build_tree goes on to the Pages dictionary.
RootResolvedThroughTrailer ==
    (BuildTreeCalled /\ TrailerNamesRoot)
        => /\ last.root.res = "ok"
           /\ last.root.val = get_object_by_reference(pdf.objects, pdf.trailer.v[KeyRoot]).v
           /\ last.pages_dict.res # "none"

\* get_root_object was called on a document whose trailer names the catalog.
TrailerRootAsked ==
    /\ BuildTreeCalled /\ TrailerNamesRoot
    /\ want.kind = "tree" /\ want.root = "trailer"
    /\ get_object_by_reference(pdf.objects, pdf.trailer.v[KeyRoot]).v.value.t = "Dictionary"
    /\ last.root.res = "err"


-----------------------------------------------------------------------------
(* Properties of the xref-stream decoder.                                   *)

RECURSIVE SumOf(_)
SumOf(ws) == IF ws = <<>> THEN 0 ELSE Head(ws) + SumOf(Tail(ws))

\* The record that starts at offset `at`, its three fields read big-endian
\* with the widths W[0], W[1], W[2].
FieldOf(widths, bytes, at, k) ==
    BigEndian(SubSeq(bytes, at + SumOf(SubSeq(widths, 1, k - 1)) + 1,
                     at + SumOf(SubSeq(widths, 1, k))))

RecordAt(widths, bytes, at) ==
    XRefStreamEntry(FieldOf(widths, bytes, at, 1), FieldOf(widths, bytes, at, 2),
                    FieldOf(widths, bytes, at, 3))

\* The payload is whole records of sum(W) bytes with a type field of at least
\* one byte, each field fits a u64, and every record's type is 0, 1 or 2.
WholeRecords(widths, bytes) ==
    /\ Len(widths) = 3
    /\ widths[1] >= 1
    /\ \A k \in 1..3 : widths[k] <= 8
    /\ Len(bytes) % SumOf(widths) = 0
    /\ \A r \in 0..(Len(bytes) \div SumOf(widths) - 1) :
          FieldOf(widths, bytes, r * SumOf(widths), 1) \in {0, 1, 2}

Records(widths, bytes) ==
    [r \in 1..(Len(bytes) \div SumOf(widths)) |->
        RecordAt(widths, bytes, (r - 1) * SumOf(widths))]

XRefStreamParsed == last.op = "parse_xref_stream"

\* C17: parse_xref_stream splits the payload into consecutive records of
\* sum(W) bytes, reads the three fields of each big-endian with the widths
\* W[0], W[1], W[2], makes type 0 a Free, type 1 an Uncompressed and type 2 a
\* Compressed entry of field2 and field3, and returns the entries in record
\* order, as many as the payload length divided by sum(W).
XRefStreamDecoded ==
    (XRefStreamParsed /\ WholeRecords(last.widths, buf))
        => /\ last.res = "ok"
           /\ last.entries = Records(last.widths, buf)
           /\ Len(last.entries) = Len(buf) \div SumOf(last.widths)

\* A payload of whole records with a two-byte type field was given and no
\* entry came back.
WideTypeFieldRefused ==
    /\ XRefStreamParsed /\ WholeRecords(last.widths, buf)
    /\ last.widths[1] = 2
    /\ buf # <<>>
    /\ last.res = "panic"


\* The top-level loop of parse has ended on a file of object definitions.
DefinitionsParsed == want.kind = "objects" /\ phase = "build"

\* The last definition of the ObjectId h in file order.
LastDefinition(defs, h) ==
    defs[CHOOSE k \in DOMAIN defs :
            /\ Header(defs[k]) = h
            /\ \A j \in DOMAIN defs : Header(defs[j]) = h => j <= k]

DefinedIds(defs) == {Header(defs[k]) : k \in DOMAIN defs}

\* The PDFObject that the definition d makes.
ObjectOf(d) ==
    [header |-> Header(d),
     value |-> VArray(<<VNumber(Int64(d.num))>>),
     offset |-> d.offset]

\* C18: after parse has processed a sequence of `N G obj ... endobj`
\* definitions, the object table has exactly one entry for each ObjectId
\* defined, and it holds the value and the file offset of the last definition
\* of that ObjectId in file order.
LastDefinitionWins ==
    DefinitionsParsed
        => /\ DOMAIN pdf.objects = DefinedIds(want.defs)
           /\ \A h \in DOMAIN pdf.objects :
                 pdf.objects[h] = ObjectOf(LastDefinition(want.defs, h))

\* An ObjectId was defined more than once, with different values, and
\* another ObjectId was defined too.
ObjectRedefined ==
    /\ DefinitionsParsed
    /\ \E j, k \in DOMAIN want.defs :
          /\ j < k
          /\ Header(want.defs[j]) = Header(want.defs[k])
          /\ want.defs[j].num # want.defs[k].num
    /\ Cardinality(DOMAIN pdf.objects) = 2


\* content_stream_lexer::parse was the last call, on a stream of operators.
LexerCalled == last.op = "parse" /\ want.kind = "ops"

\* C19: lexing a stream that contains an operator outside the recognised set
\* does not return a token sequence; in particular it does not return the
\* tokens before the unknown operator.
UnknownOperatorIsError ==
    (LexerCalled /\ \E k \in DOMAIN want.ops : want.ops[k] = "Unknown")
        => last.res # "ok"

\* The lexer returned the tokens of the operators before an unknown one.
TokensBeforeUnknownReturned ==
    /\ LexerCalled
    /\ \E k \in DOMAIN want.ops :
          /\ k > 1
          /\ want.ops[k] = "Unknown"
          /\ \A j \in 1..(k - 1) : want.ops[j] # "Unknown"
          /\ last.res = "ok"
          /\ [j \in DOMAIN last.tokens |-> last.tokens[j].t] = SubSeq(want.ops, 1, k - 1)
          /\ last.rest < Len(buf)


\* The step of parse just made, on a file that holds one stream object, had
\* next consume the `stream` keyword in its (i-1)-th call and read the bytes
\* of the stream in its i-th.
StreamRead(i) ==
    /\ want.kind = "stream"
    /\ last.op = "parse"
    /\ i \in DOMAIN last.calls /\ i > 1
    /\ last.calls[i - 1].op = "next" /\ last.calls[i - 1].tok.t = "StreamBegin"
    /\ last.calls[i].op = "get_stream"

\* C20: after the `stream` keyword exactly one end-of-line (CR LF, LF or CR)
\* is consumed, so get_stream(Length) returns exactly the Length bytes that
\* follow it, also when the data begins with a space, a CR or an LF.
StreamBodyStart ==
    \A i \in 1..Len(buf) :
        StreamRead(i)
            => /\ last.calls[i].res = "ok"
               /\ last.calls[i].tok.bytes = want.payload

\* get_stream was called for a stream whose data begins with a space, a CR or
\* an LF, and what it read is not the data.
StreamDataSkipped ==
    \E i \in 1..Len(buf) :
        /\ StreamRead(i)
        /\ want.payload[1] \in {SP, CR, LF}
        /\ last.calls[i].tok.bytes # want.payload


-----------------------------------------------------------------------------
(* Properties of the whole interface of the tokenizer.  A caller's call is  *)
(* in `last` (its state is PreState); the calls of an iteration of parse    *)
(* are in last.calls.                                                       *)

\* A caller's call of `op` was the last thing that happened.
Made(op) == phase = "calls" /\ last.op = op

\* The call returned the one token t.
Gave(t) == last.res = "ok" /\ Len(last.toks) = 1 /\ last.toks[1].t = t

\* The bytes from offset a up to offset z are SP, LF and CR, then `endstream`,
\* then at most one byte.
EndstreamRead(a, z) ==
    \E k \in a..z :
        /\ \A j \in (a + 1)..k : buf[j] \in SkippedWs
        /\ SubSeq(buf, k + 1, k + Len(KwEndstream)) = KwEndstream
        /\ z \in {k + Len(KwEndstream), k + Len(KwEndstream) + 1}

\* Calls i, i+1 and i+2 of the last iteration of parse are the next that gave
\* StreamBegin, get_stream, and the next that gave StreamEnd.
StreamCalls(i) ==
    /\ last.op = "parse"
    /\ i + 2 \in DOMAIN last.calls
    /\ last.calls[i].op = "next" /\ last.calls[i].tok.t = "StreamBegin"
    /\ last.calls[i + 1].op = "get_stream" /\ last.calls[i + 1].res = "ok"
    /\ last.calls[i + 2].op = "next" /\ last.calls[i + 2].tok.t = "StreamEnd"

\* C21: the next that gives StreamBegin puts Stream on the stack; in Stream
\* next returns an error and moves neither the cursor nor the stack;
\* get_stream(n) in Stream reads exactly the next n bytes and replaces Stream
\* by StreamEnd; in StreamEnd next accepts only whitespace and `endstream`,
\* and then pops StreamEnd, so that the stack is the one from before
\* StreamBegin.
StreamProtocol ==
    /\ (Made("next") /\ Gave("StreamBegin"))
          => state_stack = push_state(last.pre_stack, "Stream")
    /\ (Made("next") /\ PreState = "Stream")
          => last.res = "err" /\ pos = last.pre_pos /\ state_stack = last.pre_stack
    /\ (Made("get_stream") /\ PreState = "Stream" /\ last.res = "ok")
          => /\ pos = last.pre_pos + last.arg
             /\ last.toks[1].bytes = SubSeq(buf, last.pre_pos + 1, last.pre_pos + last.arg)
             /\ state_stack = push_state(pop_state(last.pre_stack), "StreamEnd")
    /\ (Made("next") /\ PreState = "StreamEnd" /\ last.res = "ok")
          => /\ Gave("StreamEnd")
             /\ EndstreamRead(last.pre_pos, pos)
             /\ state_stack = pop_state(last.pre_stack)
    /\ \A i \in 1..Len(buf) :
          StreamCalls(i)
             => /\ last.calls[i].stack = push_state(Pre(i).stack, "Stream")
                /\ last.calls[i + 1].pos = last.calls[i].pos + want.length
                /\ last.calls[i + 2].stack = Pre(i).stack

\* A caller read the bytes of the stream in Stream state and then got
\* StreamEnd, which left the Object state on top.
StreamEndReached ==
    /\ Made("next") /\ Gave("StreamEnd")
    /\ want.kind = "stream"
    /\ last.pre_stack = <<"Object", "StreamEnd">>
    /\ state_stack = <<"Object">>


\* The tokens that are a whole value by themselves.
ScalarTokens ==
    {"Name", "Boolean", "Number", "ObjectReference", "String", "HexString", "Null"}

\* C22: a next that is called in DictionaryValue and gives a token that is a
\* whole value pops DictionaryValue; after the ArrayEnd or DictionaryEnd of
\* a value DictionaryValue is not on top; so in `<< /A null /B 1 >>` the name
\* B is read in DictionaryKey, as a key whose value is still to come.
ValueLeavesDictionaryValue ==
    /\ (Made("next") /\ PreState = "DictionaryValue"
          /\ \E t \in ScalarTokens : Gave(t))
          => state_stack = pop_state(last.pre_stack)
    /\ (Made("next") /\ (Gave("ArrayEnd") \/ Gave("DictionaryEnd")))
          => get_state(state_stack) # "DictionaryValue"
    /\ (Made("next") /\ want.kind = "value" /\ last.res = "ok"
          /\ last.toks = <<NameTok(<<"B">>)>>)
          => /\ PreState = "DictionaryKey"
             /\ get_state(state_stack) = "DictionaryValue"

\* A caller got Null for the value of /A.
NullValueRead ==
    /\ Made("next") /\ PreState = "DictionaryValue" /\ Gave("Null")
    /\ want.kind = "value" /\ want.value = "Null"


\* The states a state stack may have at its bottom.
BottomStates == {"Start", "Object", "DocumentEnd"}

\* C23: as long as no call has aborted, the state stack is not empty, its
\* bottom state is Start, Object or DocumentEnd, and every DictionaryValue on
\* it lies directly above a DictionaryKey.
StackWellFormed ==
    ~aborted =>
        /\ state_stack # <<>>
        /\ state_stack[1] \in BottomStates
        /\ \A i \in DOMAIN state_stack :
              state_stack[i] = "DictionaryValue"
                 => i > 1 /\ state_stack[i - 1] = "DictionaryKey"

\* A caller's get_stream returned in a state other than Stream.
StreamReadOutsideStream ==
    /\ Made("get_stream") /\ last.res = "ok" /\ PreState # "Stream"
    /\ ~aborted


\* The call was made in Start with `%%EOF`, the last line of the file, as the
\* first thing after the whitespace at the cursor.
AtEndOfFile ==
    /\ PreState = "Start"
    /\ TokenStart >= 0
    /\ TokenStart + Len(EndOfFile) = Len(buf)
    /\ SubSeq(buf, TokenStart + 1, Len(buf)) = EndOfFile

AtName ==
    /\ Made("next") /\ want.kind = "name"
    /\ PreState = want.state
    /\ TokenStart = Len(NamePrefix(want.state))

\* The call was the next made with the cursor on the `/` that ends /A.
AtSecondName ==
    /\ Made("next") /\ want.kind = "name" /\ want.end = "/"
    /\ PreState \in NameStates
    /\ last.pre_pos = Len(NamePrefix(want.state)) + 2

\* C25: in DictionaryKey, in DictionaryValue and in ListValue a name ends at
\* the first whitespace or the first of / < [ ( > ], which is left unread
\* and is no part of the name: /A followed by any of these bytes gives
\* Name(A) with the cursor on that byte, and the /B of `/A/B` gives Name(B).
NameEndsAtDelimiter ==
    /\ AtName
          => /\ Gave("Name") /\ last.toks[1].name = <<"A">>
             /\ pos = Len(NamePrefix(want.state)) + 2
    /\ AtSecondName
          => Gave("Name") /\ last.toks[1].name = <<"B">>

\* A caller read the name at the start of `/A/B]` in an array.
ArrayNameRead ==
    /\ AtName /\ want.state = "ListValue" /\ want.end = "/"
    /\ last.res = "ok"


\* The bytes, other than the skipped SP, LF and CR, that the arm of a state
\* has a case for.
ExpectedBytes(state) ==
    CASE state = "Start" -> (Digits \ {"0"}) \cup {"%", "s", "x", "t"}
      [] state = "Object" -> {"<", "[", "s", "e", "("}
      [] state = "DictionaryKey" -> {"/", ">"}
      [] state = "DictionaryValue" -> Digits \cup {"[", "/", "t", "f", "-", "<", "n", "("}
      [] state = "ListValue" -> Digits \cup {"]", "[", "/", "-", "<", "n", "t", "f", "("}
      [] state = "StreamEnd" -> {"e"}
      [] OTHER -> {}

\* The call was a next whose first byte after the whitespace at the cursor
\* is one its state has no case for.
AtUnexpectedByte ==
    /\ Made("next")
    /\ ExpectedBytes(PreState) # {}
    /\ TokenStart >= 0
    /\ buf[TokenStart + 1] \notin ExpectedBytes(PreState)

\* A call that the last iteration of parse made returned an error.
ErrorInParse ==
    /\ last.op = "parse"
    /\ \E i \in DOMAIN last.calls : last.calls[i].res = "err"

\* C26: a next that meets a byte its state does not expect returns an
\* error: it does not abort, and it gives no token for what follows; when a
\* call of the tokenizer returns an error to parse, parse does not abort.
UnexpectedByteIsError ==
    /\ AtUnexpectedByte => last.res = "err" /\ ~aborted
    /\ ErrorInParse => ~aborted

\* A caller's next met a byte that DictionaryKey has no case for.
UnexpectedByteInKey ==
    /\ AtUnexpectedByte /\ PreState = "DictionaryKey"
    /\ want.kind = "name" /\ want.state = "DictionaryValue" /\ want.end = SP


\* The last iteration of parse stored the object of a value file whose /A
\* is a name (/N) or a literal string ((s)).
NameOrStringStored ==
    /\ ObjectStep /\ last.res = "ok"
    /\ want.kind = "value" /\ want.value \in {"Name", "String"}
    /\ TheObject \in DOMAIN pdf.objects

\* What parse has stored for the key /A of the object.
StoredA == pdf.objects[TheObject].value.dictionary[<<"A">>]

\* C27: the value parser keeps names and strings apart: the value stored
\* for `/A /N` is the name N, the value stored for `/A (s)` is the string s.
NamesStayNames ==
    NameOrStringStored
       => StoredA = IF want.value = "Name" THEN VName(<<"N">>) ELSE VString(<<"s">>)

\* parse has stored the object whose /A is the name /N.
NameValueStored == NameOrStringStored /\ want.value = "Name"


\* The offset of the first entry of the table of an xref file.
EntriesStart ==
    Len(KwXref) + Len(Eol(want.eol)) + Len(<<"0", SP, "1">>) + Len(Eol(want.eol))

\* The last iteration of parse read the xref section of an xref file.
XRefStep ==
    /\ last.op = "parse" /\ want.kind = "xref"
    /\ last.calls # <<>>
    /\ last.calls[1].res = "ok" /\ last.calls[1].tok.t = "XRefSectionBegin"

\* The XRefEntry tokens that the calls from the third on returned.
EntriesCalled == [k \in 1..(Len(last.calls) - 2) |-> last.calls[k + 2].tok]

\* C28: after XRefSectionBegin next gives the subsection header with the
\* first object number and the count and stops at the first entry;
\* get_xref_table(count) then returns exactly the count entries of the file,
\* in order; a get_xref_table that returns entries returns as many as asked
\* for and pops XRefEntry and XRefSection, which leaves the stack of before
\* `xref`; parse_xref makes these calls and leaves parse's stack as it was.
XRefTableRead ==
    /\ (Made("next") /\ want.kind = "xref" /\ PreState = "XRefSection")
          => /\ Gave("XRefSubSectionHeader")
             /\ last.toks[1].first_object_number = 0
             /\ last.toks[1].num_entries = Len(want.entries)
             /\ pos = EntriesStart
             /\ state_stack = <<"Start", "XRefSection", "XRefEntry">>
    /\ (Made("get_xref_table") /\ last.res = "ok")
          => /\ Len(last.toks) = last.arg
             /\ state_stack = SubSeq(last.pre_stack, 1, Len(last.pre_stack) - 2)
    /\ (Made("get_xref_table") /\ want.kind = "xref" /\ PreState = "XRefEntry"
          /\ last.pre_pos = EntriesStart /\ last.arg = Len(want.entries))
          => /\ last.res = "ok"
             /\ last.toks = want.entries
             /\ state_stack = <<"Start">>
    /\ XRefStep
          => /\ last.res = "ok"
             /\ Len(last.calls) = Len(want.entries) + 2
             /\ EntriesCalled = want.entries
             /\ state_stack = last.pre_stack

\* A caller's get_xref_table returned the two entries of a table.
TwoEntriesRead ==
    /\ Made("get_xref_table") /\ last.res = "ok"
    /\ want.kind = "xref" /\ last.arg = 2 /\ last.toks = want.entries


\* The loop of parse has ended on an xref file.
XRefFileParsed == phase = "build" /\ want.kind = "xref"

\* C29: when the loop of parse has read a file with an xref table, and
\* already after the iteration that read the table, pdf.xref_table holds the
\* subsection header and the entries of the table.
XRefSectionStored ==
    ((XRefStep /\ last.res = "ok") \/ XRefFileParsed)
       => /\ pdf.xref_table.some
          /\ pdf.xref_table.v.header.some
          /\ pdf.xref_table.v.header.v.first_object_number = 0
          /\ pdf.xref_table.v.header.v.num_entries = Len(want.entries)
          /\ pdf.xref_table.v.entries = want.entries

\* parse has ended on a file with a table of two entries, with a trailer.
XRefFileRead ==
    /\ XRefFileParsed /\ Len(want.entries) = 2
    /\ pdf.trailer.some /\ ~aborted


\* The records of a payload without a type field, each of type 1.
DefaultedRecords(widths, bytes) ==
    [r \in 1..(Len(bytes) \div SumOf(widths)) |->
        XRefStreamEntry(1, FieldOf(widths, bytes, (r - 1) * SumOf(widths), 2),
                        FieldOf(widths, bytes, (r - 1) * SumOf(widths), 3))]

\* parse_xref_stream was given W with W[0] = 0 and a payload of whole
\* records of W[1] + W[2] bytes.
NoTypeField ==
    /\ XRefStreamParsed
    /\ Len(last.widths) = 3 /\ last.widths[1] = 0
    /\ last.widths[2] + last.widths[3] > 0
    /\ \A k \in 2..3 : last.widths[k] <= 8
    /\ Len(buf) % SumOf(last.widths) = 0

\* C30: with W[0] = 0 parse_xref_stream reads no type field: it returns one
\* Uncompressed entry for every W[1] + W[2] bytes of the payload, made of the
\* two fields of the record.
TypeDefaultsToOne ==
    NoTypeField
       => /\ last.res = "ok"
          /\ last.entries = DefaultedRecords(last.widths, buf)

\* A payload of two-byte records was given with W = [0 1 1].
NoTypeFieldGiven == NoTypeField /\ Len(buf) >= 2


-----------------------------------------------------------------------------
(* Properties of the page tree: the contents of a page.                     *)

\* The bytes of the stream that `contents` is, and the bytes the array of
\* references `items` stands for: each stream's bytes with an LF after them.
StreamBytesOf(contents) == IF contents.value.t = "Stream" THEN contents.value.bytes ELSE <<>>

RECURSIVE Concatenated(_, _)
Concatenated(objects, items) ==
    IF items = <<>> THEN <<>>
    ELSE StreamBytesOf(objects[Header(Head(items))]) \o <<LF>>
            \o Concatenated(objects, Tail(items))

\* read_pages was called on a root all of whose kids are pages, each with a
\* reference or an array of references to stored streams as its Contents.
LeafPagesGiven ==
    /\ ReadPagesCalled
    /\ want.kind = "tree"
    /\ \A k \in DOMAIN want.kinds : want.kinds[k] \in {"Page", "PageArray"}
    /\ \E k \in DOMAIN want.kinds : want.kinds[k] = "PageArray"

\* The Contents entry of the k-th page returned.
ContentsEntry(k) == last.pages.val[k].object.value.dictionary[KeyContents]

\* C31: a page whose Contents is an array of references to streams is not
\* rejected: read_pages returns a Page for every kid, in order, and the
\* contents of such a page are the bytes of the referenced streams in array
\* order with one LF after each.
ContentsArrayConcatenated ==
    LeafPagesGiven
       => /\ last.pages.res = "ok"
          /\ Len(last.pages.val) = Len(want.kinds)
          /\ \A k \in DOMAIN want.kinds :
                want.kinds[k] = "PageArray"
                   => StreamBytesOf(last.pages.val[k].contents)
                         = Concatenated(pdf.objects, ContentsEntry(k).items)

\* read_pages was called on a root whose only kid is a page with an array
\* of two references as its Contents.
ContentsArrayGiven == LeafPagesGiven /\ want.kinds = <<"PageArray">>


-----------------------------------------------------------------------------
(* Properties of the loop of read_pages.                                    *)

\* The loop of read_pages has ended on a table whose Kids form a cycle: the
\* root lists itself, or it lists object 3, which lists the root or itself.
CycleWalked ==
    /\ phase = "done" /\ want.kind = "walk"
    /\ \E k \in DOMAIN want.kids :
          \/ want.kids[k].object_number = 2
          \/ /\ want.kids[k].object_number = 3
             /\ pdf.objects[Header(want.kids[k])].value \in {PagesValue(<<2>>), PagesValue(<<3>>)}

\* C32: the walk of the page tree ends for every object table, also when
\* Kids form a cycle: the loop of read_pages reaches its end, having taken
\* every kid of the root at most once (the kids still to come and the pages
\* pushed are never more than the kids of the root), and what it returns is
\* what read_pages returns for the root's dictionary.
WalkTerminates ==
    /\ <>(phase = "done")
    /\ [](Len(last.pages) + Len(last.kids) <= Len(want.kids))
    /\ [](phase = "done"
            => /\ last.res = read_pages(pdf.objects, pdf.objects[Header(VObjectReference(2, 0))].value.dictionary).res
               /\ last.res = "ok"
                    => last.pages = read_pages(pdf.objects, pdf.objects[Header(VObjectReference(2, 0))].value.dictionary).val)

\* The loop has ended on a root that lists a page and then itself.
CycleWalkEnded ==
    /\ CycleWalked
    /\ Len(want.kids) = 2 /\ want.kids[1].object_number = 4 /\ want.kids[2].object_number = 2
    /\ Len(last.pages) = 1


-----------------------------------------------------------------------------
(* Properties of the strings of a content stream.                           *)

\* The lexer has returned from a stream `(string)Tj`.
StringLexed == last.op = "parse" /\ want.kind = "string"

\* What read_literal_string makes of the literal string of the stream.
TokenizerString == read_literal_string(want.literal, 0)

\* C33: the text of the ShowTextString that the lexer returns for
\* `(string)Tj` is the String that the tokenizer makes of `(string)`:
\* escapes are replaced by the bytes they denote and nested balanced
\* parentheses are accepted.
ShowTextDecodedAsLiteral ==
    (StringLexed /\ TokenizerString.res = "ok")
       => /\ last.res = "ok"
          /\ last.tokens = <<[t |-> "ShowTextString", text |-> TokenizerString.s]>>

\* The lexer has returned from `(\n)Tj`, whose string is one LF.
EscapedStringLexed ==
    /\ StringLexed /\ want.str = <<LF>>
    /\ TokenizerString.res = "ok" /\ TokenizerString.s = <<LF>>


------------------------------------------------------------------------------
(* Nested text objects (text.rs 35-39)                                      *)

\* The tokens b and k are both BeginTextObject and no EndTextObject lies
\* between them.
NestedBegin(tokens, b, k) ==
    /\ b < k
    /\ IsBegin(tokens[b]) /\ IsBegin(tokens[k])
    /\ \A j \in (b + 1)..(k - 1) : ~IsEnd(tokens[j])

\* C34: when the token sequence holds a BeginTextObject and a later one with
\* no EndTextObject between the two, get_text_objects does not return: the
\* process is aborted and no list of text objects is given.
NestedBeginTextIsFatal ==
    (/\ TextObjectsCalled
     /\ \E b, k \in DOMAIN last.tokens : NestedBegin(last.tokens, b, k))
        => /\ last.res = "panic"
           /\ aborted
           /\ last.text_objects = NoVal

\* get_text_objects was called on tokens that open a text object, set its
\* text matrix, show a string and open a text object again: nothing but the
\* second BeginTextObject stops the extraction.
NestedBeginTextCalled ==
    /\ TextObjectsCalled
    /\ \E b, k \in DOMAIN last.tokens :
          /\ k = b + 3
          /\ NestedBegin(last.tokens, b, k)
          /\ \A j \in 1..(b - 1) : ~IsBegin(last.tokens[j])
          /\ IsSetTextMatrix(last.tokens[b + 1])
          /\ IsShow(last.tokens[b + 2])


------------------------------------------------------------------------------
(* EndTextObject with and without an open text object (text.rs 40-44, 73-88) *)

\* The k-th token is an EndTextObject met outside every text object: each
\* BeginTextObject before it has an EndTextObject of its own before k.
StrayEnd(tokens, k) ==
    /\ IsEnd(tokens[k])
    /\ \A b \in 1..(k - 1) :
          IsBegin(tokens[b]) => \E j \in (b + 1)..(k - 1) : IsEnd(tokens[j])

\* C35: an EndTextObject met while a text object is open pushes that text
\* object and closes it, so a returned list has one text object for each
\* closed pair; an EndTextObject met while no text object is open is an
\* error, so get_text_objects does not return normally on such tokens.
EndTextNeedsOpenTextObject ==
    TextObjectsCalled =>
        /\ last.res = "ok" =>
              Len(last.text_objects) = Cardinality(ClosedRegions(last.tokens))
        /\ (\E k \in DOMAIN last.tokens : StrayEnd(last.tokens, k)) => last.res # "ok"

\* get_text_objects returned a list for tokens that hold an EndTextObject
\* outside every text object.
StrayEndTextIgnored ==
    /\ TextObjectsReturned
    /\ \E k \in DOMAIN last.tokens : StrayEnd(last.tokens, k)


------------------------------------------------------------------------------
(* The coordinates of a run (text.rs 45-68)                                 *)

\* The k-th token lies inside a text object.
InsideTextObject(tokens, k) ==
    \E b \in 1..(k - 1) :
        IsBegin(tokens[b]) /\ \A j \in (b + 1)..(k - 1) : ~IsEnd(tokens[j])

\* The m-th token is the most recent SetTextMatrix of a text object before
\* the k-th token.
MostRecentMatrix(tokens, m, k) ==
    /\ m < k
    /\ IsSetTextMatrix(tokens[m]) /\ InsideTextObject(tokens, m)
    /\ \A j \in (m + 1)..(k - 1) :
          ~(IsSetTextMatrix(tokens[j]) /\ InsideTextObject(tokens, j))

\* The token that shows the j-th string of the text object between b and e.
NthShow(tokens, b, e, j) ==
    CHOOSE k \in (b + 1)..(e - 1) :
        /\ IsShow(tokens[k])
        /\ Cardinality({i \in (b + 1)..(k - 1) : IsShow(tokens[i])}) = j - 1

\* The run is the string of the k-th token at the translation of the most
\* recent text matrix.
RunPlaced(tokens, run, k) ==
    /\ run.text = tokens[k].text
    /\ \E m \in DOMAIN tokens :
          /\ MostRecentMatrix(tokens, m, k)
          /\ run.x = tokens[m].matrix[5]
          /\ run.y = tokens[m].matrix[6]

\* C36: every run of a returned text object carries the string of its
\* ShowTextString and, as x and y, the fifth and sixth number of the most
\* recent SetTextMatrix met inside a text object before it; a TextFont and
\* the tokens outside text objects change nothing, and the strings shown
\* after one SetTextMatrix all get its x and y.
RunsAtMostRecentMatrix ==
    TextObjectsReturned =>
        \A i \in DOMAIN last.text_objects :
            \A j \in DOMAIN last.text_objects[i].positioned_text :
                RunPlaced(last.tokens, last.text_objects[i].positioned_text[j],
                          NthShow(last.tokens, NthRegion(last.tokens, i)[1],
                                  NthRegion(last.tokens, i)[2], j))

\* A text object with two runs at the same place was returned, a TextFont
\* lying between the two strings and a SetTextMatrix of another place, outside
\* the text object, coming first in the stream.
RunsShareMatrix ==
    /\ TextObjectsReturned
    /\ last.tokens # <<>>
    /\ IsSetTextMatrix(last.tokens[1])
    /\ \E k \in DOMAIN last.tokens :
          /\ k > 1 /\ k < Len(last.tokens)
          /\ IsShow(last.tokens[k - 1])
          /\ last.tokens[k].t = "TextFont"
          /\ IsShow(last.tokens[k + 1])
    /\ \E i \in DOMAIN last.text_objects :
          /\ Len(last.text_objects[i].positioned_text) = 2
          /\ last.text_objects[i].positioned_text[1].x
               = last.text_objects[i].positioned_text[2].x
          /\ last.text_objects[i].positioned_text[1].x # last.tokens[1].matrix[5]


------------------------------------------------------------------------------
(* The offset recorded for an object (reader.rs 233-249, 98-105)            *)

\* The top-level loop of parse has ended on a file of two objects, each
\* after its whitespace.
SeparatedParsed == want.kind = "separated" /\ phase = "build"

ObjectId(n) == [object_number |-> n, generation_number |-> 0]

\* C37: the offset recorded for an object is the offset of the first digit
\* of its `N G obj` header, whatever whitespace (LF, CR LF, spaces) lies
\* between the preceding token and it, so get_object_at_offset finds the
\* object when it is given the offset of that digit.
OffsetIsHeaderStart ==
    SeparatedParsed =>
        \A n \in {1, 2} :
            /\ ObjectId(n) \in DOMAIN pdf.objects
            /\ pdf.objects[ObjectId(n)].offset = want.offsets[n]
            /\ get_object_at_offset(pdf.objects, want.offsets[n])
                 = Some(pdf.objects[ObjectId(n)])

\* Both objects were read from a file in which CR LF follows the first
\* `endobj`.
SeparatedByCrLf ==
    /\ SeparatedParsed
    /\ want.separator = <<CR, LF>>
    /\ DOMAIN pdf.objects = {ObjectId(1), ObjectId(2)}


------------------------------------------------------------------------------
(* Parsing with and without debug logging (reader.rs 387-397, 358-378)      *)

\* One iteration of parse from the state the process is in, with debug
\* logging on or off.
IterationWith(dbg) == parse_step(buf, pos, state_stack, dbg, pdf)

\* The i-th call of the last iteration read the bytes of a stream.
StreamBytesRead(i) ==
    /\ last.op = "parse"
    /\ i \in DOMAIN last.calls
    /\ last.calls[i].op = "get_stream"

\* C38: from the same bytes, cursor and state stack, an iteration of parse
\* makes the same calls on the tokenizer, with the same results, cursor
\* positions and state stacks, and leaves the same document, with debug
\* logging on as with debug logging off; and with either, the call before
\* get_stream is the next that consumed StreamBegin.
ParsingIgnoresLogging ==
    /\ (phase = "parse" /\ ~aborted) => IterationWith(TRUE) = IterationWith(FALSE)
    /\ \A i \in 1..Len(buf) :
          StreamBytesRead(i)
              => /\ i > 1
                 /\ last.calls[i - 1].op = "next"
                 /\ last.calls[i - 1].tok.t = "StreamBegin"

\* With debug logging off, get_stream was called right after the peak_next
\* that saw StreamBegin.
StreamBeginNotConsumed ==
    /\ ~debug_enabled
    /\ \E i \in 1..Len(buf) :
          /\ StreamBytesRead(i)
          /\ i > 1
          /\ last.calls[i - 1].op = "peak_next"
          /\ last.calls[i - 1].tok.t = "StreamBegin"

=============================================================================
